---- MODULE Spec2Model ----
(***************************************************************************)
(* Model of the customer-support workflow orchestrator:                    *)
(*   - StateManager (src/src/agent/state_manager.py): the versioned state  *)
(*     store.  Python object identity matters there: update_state makes a  *)
(*     shallow copy, so the execution_log and errors lists are objects     *)
(*     shared between versions.  Lists live in two heaps and a version     *)
(*     holds references to them.                                           *)
(*   - the stage executors (src/src/stages/stage_NN_*.py), as coroutines   *)
(*     that run atomically between two awaited capability calls;           *)
(*   - the engine (src/src/agent/langgraph_agent.py): the compiled graph   *)
(*     and process_customer_request.                                       *)
(* The capability provider is an external collaborator: each call returns  *)
(* success or failure and data drawn from small sets.                      *)
(***************************************************************************)
EXTENDS Integers, Sequences, FiniteSets, TLC

VARIABLES
  hist,      \* StateManager._state_history: session id -> sequence of versions
  logHeap,   \* the execution_log list objects (a version holds an index)
  errHeap,   \* the errors list objects (a version holds an index)
  nextSid,   \* source of fresh session ids (uuid4)
  clock,     \* datetime.now(), as a logical time
  ret,       \* outcome of the last direct call of a StateManager method
  nUpd,      \* history variable: update_state calls that returned, per session
  nExec,     \* history variable: calls of a stage's execute made so far
  tasks,     \* the stage executions (coroutines) and where each one is
  run,       \* the engine run (process_customer_request)
  mcp        \* the capability client: the requests its two backends were
             \* sent and the outcome of the last execute_ability call

vars == <<hist, logHeap, errHeap, nextSid, clock, ret, nUpd, nExec, tasks, run, mcp>>

-----------------------------------------------------------------------------
(* Bounds of the model *)

MaxOps == 4         \* direct StateManager calls that change the store
MaxExec == 1        \* calls of execute made on the stage executors

-----------------------------------------------------------------------------
(* Values *)

None == << >>
Some(v) == <<v>>
IsNone(o) == o = << >>
Val(o) == o[1]

Last(s) == s[Len(s)]

RECURSIVE SumSeq(_)
SumSeq(s) == IF s = << >> THEN 0 ELSE s[1] + SumSeq(Tail(s))

\* StageStatus (state_manager.py:14-20)
StageStatus == {"pending", "in_progress", "completed", "failed", "skipped"}

\* The keys of the AgentState dict built by create_initial_state.
InputFields == {"customer_name", "email", "query", "priority"}
IdentityFields == {"session_id", "ticket_id"}
StageFields ==
  {"parsed_request", "extracted_entities", "normalized_fields", "enriched_records",
   "calculated_flags", "clarification_needed", "questions_asked",
   "customer_responses", "knowledge_base_results", "retrieved_solutions",
   "solution_scores", "escalation_decision", "selected_solution",
   "decision_reasoning", "ticket_updates", "ticket_status", "generated_response",
   "api_calls_executed", "notifications_sent", "final_payload"}
MetaFields == {"current_stage", "execution_log", "created_at", "updated_at", "errors"}
StateKeys == InputFields \cup IdentityFields \cup StageFields \cup MetaFields

\* ExecutionLog (state_manager.py:22-32); timestamp and output are left out,
\* a duration or a server that is None is the empty option.
LogEntry(id, name, status, abilities, server, duration, error) ==
  [stage_id |-> id, stage_name |-> name, status |-> status,
   abilities_executed |-> abilities, server_used |-> server,
   duration_ms |-> duration, error_message |-> error]

-----------------------------------------------------------------------------
(* StateManager *)

\* The three objects a StateManager method reads and writes.
Store == [h |-> hist, lg |-> logHeap, er |-> errHeap]

HasSession(st, sid) == sid \in DOMAIN st.h

\* A store method that indexes _state_history without looking first: the
\* dict raises KeyError for a session it does not hold.
SessionLookup(st, sid) == IF HasSession(st, sid) THEN "None" ELSE "KeyError"

\* `if session_id not in self._state_history: raise ValueError(...)`
\* (state_manager.py:186-187, 211-212, 237-238): the exception the check
\* raises, "None" when it raises none.
SessionCheck(st, sid) == IF HasSession(st, sid) THEN "None" ELSE "ValueError"

\* uuid4 (state_manager.py:118): the n-th fresh identifier, as the pair of its
\* first eight characters and the rest.
Uuid(n) == <<n \div 2, n % 2>>
Prefix8(sid) == sid[1]

\* strftime('%Y%m%d') of a time: the day the tick falls in.
TicksPerDay == 2
DateOf(now) == now \div TicksPerDay

\* A ticket id that is derived whatever the caller passes.
TicketIdDerived(ticket_id, now, sid) == Some(<<"TKT", DateOf(now), Prefix8(sid)>>)

\* `if not ticket_id` (state_manager.py:122-123): None and "" are both falsy.
TicketIdFor(ticket_id, now, sid) ==
  IF IsNone(ticket_id) \/ ticket_id = Some(<<"">>)
  THEN Some(<<"TKT", DateOf(now), Prefix8(sid)>>)
  ELSE ticket_id

\* The dict built at state_manager.py:125-162.
InitialState(sid, customer_name, email, query, priority, ticket_id, now, logRef, errRef) ==
  [customer_name |-> customer_name, email |-> email, query |-> query,
   priority |-> priority, ticket_id |-> TicketIdFor(ticket_id, now, sid),
   parsed_request |-> None, extracted_entities |-> None,
   normalized_fields |-> None, enriched_records |-> None, calculated_flags |-> None,
   clarification_needed |-> None, questions_asked |-> None,
   customer_responses |-> None,
   knowledge_base_results |-> None, retrieved_solutions |-> None,
   solution_scores |-> None, escalation_decision |-> None,
   selected_solution |-> None, decision_reasoning |-> None,
   ticket_updates |-> None, ticket_status |-> Some("open"),
   generated_response |-> None,
   api_calls_executed |-> None, notifications_sent |-> None,
   final_payload |-> None,
   session_id |-> sid, current_stage |-> "INTAKE",
   execution_log |-> logRef, created_at |-> now, updated_at |-> now,
   errors |-> errRef]

\* A creation that gives every session the lists of the first one.
create_initial_state_shared_lists(st, sid, customer_name, email, query, priority, ticket_id, now) ==
  [h  |-> (sid :> <<InitialState(sid, customer_name, email, query, priority,
                                 ticket_id, now, 1, 1)>>) @@ st.h,
   lg |-> Append(st.lg, << >>),
   er |-> Append(st.er, << >>)]

\* create_initial_state (state_manager.py:105-166)
create_initial_state(st, sid, customer_name, email, query, priority, ticket_id, now) ==
  LET logRef == Len(st.lg) + 1
      errRef == Len(st.er) + 1
      initial_state == InitialState(sid, customer_name, email, query, priority,
                                    ticket_id, now, logRef, errRef)
  IN [h  |-> (sid :> <<initial_state>>) @@ st.h,
      lg |-> Append(st.lg, << >>),
      er |-> Append(st.er, << >>)]

UnknownKeyNote(key, stage_name) == <<"Unknown state key", key, stage_name>>

\* One iteration of the loop of update_state (state_manager.py:192-198) on the
\* copy acc.v.  A value given for errors or execution_log is a list, hence a
\* new list object; an unknown key appends to the list the copy refers to.
ApplyKey(acc, key, value, stage_name) ==
  IF key \in DOMAIN acc.v
  THEN CASE key = "errors" ->
              [acc EXCEPT !.v[key] = Len(acc.er) + 1, !.er = Append(@, value)]
         [] key = "execution_log" ->
              [acc EXCEPT !.v[key] = Len(acc.lg) + 1, !.lg = Append(@, value)]
         [] OTHER -> [acc EXCEPT !.v[key] = value]
  ELSE [acc EXCEPT !.er[acc.v.errors] =
                      Append(@, UnknownKeyNote(key, stage_name))]

\* The loop over updates.items(): a dict keeps its insertion order.
RECURSIVE ApplyUpdates(_, _, _)
ApplyUpdates(acc, updates, stage_name) ==
  IF updates = << >> THEN acc
  ELSE ApplyUpdates(ApplyKey(acc, updates[1][1], updates[1][2], stage_name),
                    Tail(updates), stage_name)

\* update_state that replaces the latest version instead of appending a new one.
update_state_in_place(st, sid, updates, stage_name, now) ==
  LET current_state == Last(st.h[sid])
      acc == ApplyUpdates([v |-> current_state, lg |-> st.lg, er |-> st.er],
                          updates, stage_name)
      new == [acc.v EXCEPT !.current_stage = stage_name, !.updated_at = now]
  IN [h |-> [st.h EXCEPT ![sid] = [@ EXCEPT ![Len(@)] = new]],
      lg |-> acc.lg, er |-> acc.er]

\* update_state that copies the first version of the session, not the latest.
update_state_from_first(st, sid, updates, stage_name, now) ==
  LET current_state == Head(st.h[sid])
      acc == ApplyUpdates([v |-> current_state, lg |-> st.lg, er |-> st.er],
                          updates, stage_name)
      new == [acc.v EXCEPT !.current_stage = stage_name, !.updated_at = now]
  IN [h |-> [st.h EXCEPT ![sid] = Append(@, new)], lg |-> acc.lg, er |-> acc.er]

\* update_state (state_manager.py:189-207), for a session of the store: the
\* shallow copy keeps the references of the latest version.
update_state(st, sid, updates, stage_name, now) ==
  LET current_state == Last(st.h[sid])
      acc == ApplyUpdates([v |-> current_state, lg |-> st.lg, er |-> st.er],
                          updates, stage_name)
      new == [acc.v EXCEPT !.current_stage = stage_name, !.updated_at = now]
  IN [h |-> [st.h EXCEPT ![sid] = Append(@, new)], lg |-> acc.lg, er |-> acc.er]

\* get_current_state (state_manager.py:209-213), for a session of the store
get_current_state(st, sid) == st.h[sid][Len(st.h[sid])]

\* get_state_history (state_manager.py:215-217)
get_state_history(st, sid) == IF sid \in DOMAIN st.h THEN st.h[sid] ELSE << >>

\* An error test that takes every message that is not None, "" included.
HasErrorNotNone(error_message) == ~IsNone(error_message)

\* `if error_message` (state_manager.py:257): None and "" are falsy.
HasError(error_message) == ~IsNone(error_message) /\ error_message # Some("")

LogNote(stage_name, error_message) == <<stage_name, Val(error_message)>>

\* log_stage_execution (state_manager.py:240-258), for a session of the store:
\* both appends are in place, on the lists of the latest version.
log_stage_execution(st, sid, entry) ==
  LET current_state == Last(st.h[sid])
      lg2 == [st.lg EXCEPT ![current_state.execution_log] = Append(@, entry)]
      er2 == IF HasError(entry.error_message)
             THEN [st.er EXCEPT ![current_state.errors] =
                      Append(@, LogNote(entry.stage_name, entry.error_message))]
             ELSE st.er
  IN [h |-> st.h, lg |-> lg2, er |-> er2]

\* A purge that empties the whole store.
cleanup_everything(st, sid) == [st EXCEPT !.h = << >>]

\* cleanup_session (state_manager.py:289-292)
cleanup_session(st, sid) ==
  [st EXCEPT !.h = [s \in (DOMAIN st.h) \ {sid} |-> st.h[s]]]

\* What a reader of a version sees: the lists behind the references.
LogOf(st, v) == st.lg[v.execution_log]
ErrorsOf(st, v) == st.er[v.errors]
View(st, v) == [v EXCEPT !.execution_log = LogOf(st, v), !.errors = ErrorsOf(st, v)]

\* get_stage_output (state_manager.py:273-287): the loop returns at the first
\* entry of the current execution log whose stage_name matches; None for an
\* unknown session or when no entry matches. The entries of the model do not
\* carry the output dictionary, so the result is the entry whose output the
\* method returns.
StageEntries(st, sid, stage_name) ==
  SelectSeq(LogOf(st, get_current_state(st, sid)),
            LAMBDA e : e.stage_name = stage_name)

\* A get_stage_output that keeps looking and answers from the last match.
get_stage_output_latest(st, sid, stage_name) ==
  IF ~HasSession(st, sid) THEN None
  ELSE LET es == StageEntries(st, sid, stage_name) IN
       IF es = << >> THEN None ELSE Some(es[Len(es)])

get_stage_output(st, sid, stage_name) ==
  IF ~HasSession(st, sid) THEN None
  ELSE LET es == StageEntries(st, sid, stage_name) IN
       IF es = << >> THEN None ELSE Some(Head(es))

-----------------------------------------------------------------------------
(* Python truthiness of a state field: None, False and the empty list are   *)
(* falsy.                                                                   *)

BoolFields == {"clarification_needed", "escalation_decision"}
ListFields == {"questions_asked", "retrieved_solutions", "api_calls_executed",
               "notifications_sent"}

Truthy(key, o) ==
  IF IsNone(o) THEN FALSE
  ELSE IF key \in BoolFields THEN Val(o)
  ELSE IF key \in ListFields THEN Val(o) # << >>
  ELSE TRUE

-----------------------------------------------------------------------------
(* The capability provider (src/src/mcp/mcp_client.py).  A response is      *)
(* success with data, or failure with an error text; what the data holds is *)
(* the provider's choice.                                                   *)

\* A routing table that sends every ability to the ATLAS server.
server_mapping_atlas_only ==
  [parse_request_text |-> "ATLAS", normalize_fields |-> "ATLAS",
   add_flags_calculations |-> "ATLAS", solution_evaluation |-> "ATLAS",
   response_generation |-> "ATLAS",
   extract_entities |-> "ATLAS", enrich_records |-> "ATLAS",
   clarify_question |-> "ATLAS", extract_answer |-> "ATLAS",
   knowledge_base_search |-> "ATLAS", escalation_decision |-> "ATLAS",
   update_ticket |-> "ATLAS", close_ticket |-> "ATLAS",
   execute_api_calls |-> "ATLAS", trigger_notifications |-> "ATLAS"]

\* MCPClient.server_mapping (mcp_client.py:61-80)
server_mapping ==
  [parse_request_text |-> "COMMON", normalize_fields |-> "COMMON",
   add_flags_calculations |-> "COMMON", solution_evaluation |-> "COMMON",
   response_generation |-> "COMMON",
   extract_entities |-> "ATLAS", enrich_records |-> "ATLAS",
   clarify_question |-> "ATLAS", extract_answer |-> "ATLAS",
   knowledge_base_search |-> "ATLAS", escalation_decision |-> "ATLAS",
   update_ticket |-> "ATLAS", close_ticket |-> "ATLAS",
   execute_api_calls |-> "ATLAS", trigger_notifications |-> "ATLAS"]

\* `self.server_mapping.get(ability_name)` (mcp_client.py:105)
ServerOf(ability_name) ==
  IF ability_name \in DOMAIN server_mapping
  THEN Some(server_mapping[ability_name]) ELSE None

\* MCPResponse(...) (mcp_client.py:35-41): server_type is declared
\* MCPServerType, with no default and not Optional, so the model class
\* rejects None with a ValidationError.
MCPResponse(success, data, error, server_type) ==
  IF IsNone(server_type)
  THEN [raised |-> "ValidationError", response |-> None]
  ELSE [raised |-> "None",
        response |-> Some([success |-> success, data |-> data, error |-> error,
                           server_type |-> server_type])]

\* _call_atlas_server and _call_common_server (mcp_client.py:128-205): the
\* backend answers with data, or raises and the error text is returned;
\* answered tells which.
CallServer(server_type, ability_name, answered) ==
  IF answered
  THEN MCPResponse(TRUE, Some("data"), None, Some(server_type))
  ELSE MCPResponse(FALSE, None, Some("backend error"), Some(server_type))

\* execute_ability (mcp_client.py:82-126): what the call does to the record
\* of the client, requests being the requests sent to the backends so far.
execute_ability(requests, ability_name, answered) ==
  LET server_type == ServerOf(ability_name) IN
  IF IsNone(server_type)
  THEN LET r == MCPResponse(FALSE, None, Some(<<"Unknown ability: ", ability_name>>),
                            None)
       IN [requests |-> requests, ability_name |-> Some(ability_name),
           raised |-> r.raised, response |-> r.response]
  ELSE LET r == CallServer(Val(server_type), ability_name, answered)
       IN [requests |-> Append(requests, [server_type |-> Val(server_type),
                                          ability_name |-> ability_name]),
           ability_name |-> Some(ability_name),
           raised |-> r.raised, response |-> r.response]

\* The scores of one solution: its overall_score, or none when the key is
\* missing.
OverallScores == {None} \cup {Some(s) : s \in {0, 89, 90, 95}}

\* A score map is a dict, hence ordered: a sequence of <<id, scores>>.
ScoreMaps ==
  {<< >>}
    \cup {<< <<"SOL-001", a>> >> : a \in OverallScores}
    \cup {<< <<"SOL-001", a>>, <<"SOL-002", b>> >> : a \in OverallScores, b \in OverallScores}

Evaluations ==
  [solution_scores : ScoreMaps,
   recommended_solution : {None, Some("SOL-001"), Some("SOL-002"), Some("SOL-009")}]

Solution(id, relevance_score) == [id |-> id, relevance_score |-> relevance_score]

SearchResults ==
  { << >>,
    << Solution("SOL-001", 9) >>,
    << Solution("SOL-002", 5), Solution("SOL-001", 9) >>,
    << Solution("SOL-001", 9), Solution("SOL-002", 9) >> }

\* The data a successful response of an ability may carry.
DataOf(ability) ==
  CASE ability = "clarify_question" ->
         { [questions_needed |-> None, questions |-> None],
           [questions_needed |-> Some(TRUE), questions |-> Some(<<"q1">>)],
           [questions_needed |-> Some(FALSE), questions |-> Some(<< >>)] }
    [] ability = "knowledge_base_search" ->
         { [solutions_found |-> s] : s \in SearchResults }
    [] ability = "solution_evaluation" -> Evaluations
    [] ability = "update_ticket" ->
         { [new_status |-> None], [new_status |-> Some("pending_customer")],
           [new_status |-> Some("closed")] }
    [] ability = "response_generation" ->
         { [generated_response |-> None], [generated_response |-> Some("Dear Jane")] }
    [] ability = "execute_api_calls" ->
         { [api_calls_executed |-> << >>],
           [api_calls_executed |-> << [success |-> TRUE] >>] }
    [] ability = "trigger_notifications" ->
         { [notifications_sent |-> << >>],
           [notifications_sent |-> << [sent |-> TRUE] >>] }
    [] OTHER -> { "data" }

\* The text of the exception a stage raises when a response is a failure
\* (`raise Exception(f"Failed to ...: {response.error}")`).
FailureMessage(ability) ==
  CASE ability = "parse_request_text" -> "Failed to parse request text: err"
    [] ability = "extract_entities" -> "Failed to extract entities: err"
    [] ability = "normalize_fields" -> "failed to normalize fields: err"
    [] ability = "clarify_question" -> "Failed to assess clarification needs: err"
    [] ability = "extract_answer" -> "Failed to extract customer answers: err"
    [] ability = "knowledge_base_search" -> "Failed to search knowledge base: err"
    [] ability = "solution_evaluation" -> "Failed to evaluate solutions: err"
    [] ability = "escalation_decision" -> "Failed to make escalation decision: err"
    [] ability = "update_ticket" -> "Failed to update ticket: err"
    [] ability = "close_ticket" -> "Failed to close ticket: err"
    [] ability = "response_generation" -> "Failed to generate response: err"
    [] ability = "execute_api_calls" -> "Failed to execute API calls: err"
    [] OTHER -> "Failed to trigger notifications: err"

\* str(e) of the errors Python itself raises in the stages.
NoneHasNoGet == "'NoneType' object has no attribute 'get'"
NoneNotIterable == "argument of type 'NoneType' is not iterable"
NoneHasNoLen == "object of type 'NoneType' has no len()"
NotSubscriptable == "'builtin_function_or_method' object is not subscriptable"
UnboundAbilities ==
  "cannot access local variable 'abilities_executed' where it is not associated with a value"

-----------------------------------------------------------------------------
(* The stage executors.  execute runs up to its next awaited capability     *)
(* call, or to its end; what one such run comes to is an outcome:           *)
(*   call   - it awaits the response of an ability;                         *)
(*   finish - it reached the success path: update_state (when there are     *)
(*            updates), then log_stage_execution, then return;              *)
(*   throw  - an exception reached the except handler of execute.           *)
(* bound tells whether the local abilities_executed is assigned.            *)

StageId ==
  [INTAKE |-> 1, UNDERSTAND |-> 2, PREPARE |-> 3, ASK |-> 4, WAIT |-> 5,
   RETRIEVE |-> 6, DECIDE |-> 7, UPDATE |-> 8, CREATE |-> 9, DO |-> 10,
   COMPLETE |-> 11]

StageNames ==
  <<"INTAKE", "UNDERSTAND", "PREPARE", "ASK", "WAIT", "RETRIEVE", "DECIDE",
    "UPDATE", "CREATE", "DO", "COMPLETE">>

Call(ability, abilities, results, aux) ==
  [kind |-> "call", ability |-> ability, bound |-> TRUE, abilities |-> abilities,
   results |-> results, aux |-> aux, status |-> "", server |-> None,
   updates |-> None, etype |-> "", msg |-> ""]

Finish(status, abilities, server, updates) ==
  [kind |-> "finish", ability |-> "", bound |-> TRUE, abilities |-> abilities,
   results |-> << >>, aux |-> None, status |-> status, server |-> server,
   updates |-> updates, etype |-> "", msg |-> ""]

Throw(etype, msg, bound, abilities) ==
  [kind |-> "throw", ability |-> "", bound |-> bound, abilities |-> abilities,
   results |-> << >>, aux |-> None, status |-> "", server |-> None,
   updates |-> None, etype |-> etype, msg |-> msg]

\* ---- stage 2, UNDERSTAND (stage_02_understand.py:52-117)

understand_enter(cur) == Call("parse_request_text", << >>, << >>, None)

understand_resume(tk, data) ==
  IF tk.ability = "parse_request_text"
  THEN Call("extract_entities", <<"parse_request_text">>,
            << <<"parsed_request", Some(data)>> >>, None)
  ELSE Finish("completed", Append(tk.abilities, "extract_entities"), Some("COMMON,ATLAS"),
              Some(Append(tk.results, <<"extracted_entities", Some(data)>>)))

\* ---- stage 3, PREPARE (stage_03_prepare.py:51-128)

prepare_enter(cur) ==
  IF ~Truthy("parsed_request", cur.parsed_request)
       \/ ~Truthy("extracted_entities", cur.extracted_entities)
  THEN Throw("Exception", "Missing required data from UNDERSTAND stage", FALSE, << >>)
  ELSE Call("normalize_fields", << >>, << >>, None)

\* After normalize_fields, _enrich_records builds its context with
\* state.get["extracted_entities"] (stage_03_prepare.py:176): a TypeError,
\* before enrich_records is called.
prepare_resume(tk, data) ==
  Throw("TypeError", NotSubscriptable, TRUE, Append(tk.abilities, "normalize_fields"))

\* ---- stage 4, ASK (stage_04_ask.py:49-116)

ask_enter(cur) ==
  IF ~Truthy("parsed_request", cur.parsed_request)
  THEN Throw("Exception", "Missing required data from previous stages: parsed_request",
             FALSE, << >>)
  ELSE IF ~Truthy("extracted_entities", cur.extracted_entities)
  THEN Throw("Exception", "Missing required data from previous stages: extracted_entities",
             FALSE, << >>)
  ELSE IF ~Truthy("calculated_flags", cur.calculated_flags)
  THEN Throw("Exception", "Missing required data from previous stages: calculated_flags",
             FALSE, << >>)
  ELSE Call("clarify_question", << >>, << >>, None)

\* clarification_result.get("questions_needed", False) and .get("questions", [])
ask_resume(tk, data) ==
  Finish("completed", <<"clarify_question">>, Some("ATLAS"),
         Some(<< <<"clarification_needed",
                   IF IsNone(data.questions_needed) THEN Some(FALSE)
                   ELSE data.questions_needed>>,
                 <<"questions_asked",
                   IF IsNone(data.questions) THEN Some(<< >>) ELSE data.questions>> >>))

\* ---- stage 5, WAIT (stage_05_wait.py:53-167)

\* A WAIT that writes its waiting marker before it looks at clarification_needed.
wait_enter_marking(cur, customer_responses) ==
  IF IsNone(customer_responses)
  THEN Finish("in_progress", << >>, None,
              Some(<< <<"customer_responses", None>>,
                      <<"waiting_for_response", TRUE>>,
                      <<"questions_sent_at", "now">> >>))
  ELSE IF ~Truthy("clarification_needed", cur.clarification_needed)
  THEN Finish("skipped", << >>, None, None)
  ELSE Call("extract_answer", << >>, << >>, None)

wait_enter(cur, customer_responses) ==
  IF ~Truthy("clarification_needed", cur.clarification_needed)
  THEN Finish("skipped", << >>, None, None)
  ELSE IF IsNone(customer_responses)
  THEN Finish("in_progress", << >>, None,
              Some(<< <<"customer_responses", None>>,
                      <<"waiting_for_response", TRUE>>,
                      <<"questions_sent_at", "now">> >>))
  ELSE Call("extract_answer", << >>, << >>, None)

\* _store_answer (stage_05_wait.py:202-215)
\* A _store_answer that also marks the clarification as no longer needed.
_store_answer_and_clear(extracted_data) ==
  << <<"customer_responses", Some(extracted_data)>>,
     <<"clarification_needed", Some(FALSE)>> >>

_store_answer(extracted_data) ==
  << <<"customer_responses", Some(extracted_data)>>,
     <<"waiting_for_response", FALSE>>,
     <<"responses_received_at", "now">>,
     <<"response_completeness", "1.0">> >>

is_waiting_for_response(state) ==
  IF "waiting_for_response" \in DOMAIN state THEN state.waiting_for_response ELSE FALSE

wait_resume(tk, data) ==
  Finish("completed", <<"extract_answer", "store_answer">>, Some("ATLAS,STATE"),
         Some(_store_answer(data)))

\* ---- stage 6, RETRIEVE (stage_06_retrieve.py:52-127)

\* sorted(solutions, key=relevance_score, reverse=True): a stable sort.
RECURSIVE InsertByRelevance(_, _)
InsertByRelevance(sorted, x) ==
  IF sorted = << >> THEN <<x>>
  ELSE IF Head(sorted).relevance_score >= x.relevance_score
       THEN <<Head(sorted)>> \o InsertByRelevance(Tail(sorted), x)
       ELSE <<x>> \o sorted

RECURSIVE SortByRelevance(_)
SortByRelevance(solutions) ==
  IF solutions = << >> THEN << >>
  ELSE InsertByRelevance(SortByRelevance(SubSeq(solutions, 1, Len(solutions) - 1)),
                         Last(solutions))

\* _store_retrieved_data (stage_06_retrieve.py:191-218)
_store_retrieved_data(search_result) ==
  << <<"knowledge_base_results", Some(search_result)>>,
     <<"retrieved_solutions", Some(SortByRelevance(search_result.solutions_found))>>,
     <<"search_metadata", "meta">> >>

\* _determine_search_categories (stage_06_retrieve.py:169-189) reads
\* state.get("extracted_entities", {}).get(...): the key is always there, so
\* a value of None is what .get is called on.
retrieve_enter(cur) ==
  IF ~Truthy("parsed_request", cur.parsed_request)
  THEN Throw("Exception", "Missing parsed request data for knowledge base search",
             FALSE, << >>)
  ELSE IF IsNone(cur.extracted_entities)
  THEN Throw("AttributeError", NoneHasNoGet, TRUE, << >>)
  ELSE Call("knowledge_base_search", << >>, << >>, None)

retrieve_resume(tk, data) ==
  Finish("completed", <<"knowledge_base_search", "store_data">>, Some("ATLAS,STATE"),
         Some(_store_retrieved_data(data)))

\* ---- stage 7, DECIDE (stage_07_decide.py:59-153)

escalation_threshold == 90

HasId(solution_scores, id) ==
  \E i \in 1..Len(solution_scores) : solution_scores[i][1] = id

\* solution_scores[id]
ScoresOf(solution_scores, id) ==
  solution_scores[CHOOSE i \in 1..Len(solution_scores) : solution_scores[i][1] = id][2]

\* scores.get("overall_score", 0)
OverallOr0(scores) == IF IsNone(scores) THEN 0 ELSE Val(scores)

\* The loop of stage_07_decide.py:245-249, with the strict comparison first.
RECURSIVE BestLoopStrict(_, _, _)
BestLoopStrict(solution_scores, best_solution_id, best_score) ==
  IF solution_scores = << >> THEN <<best_solution_id, best_score>>
  ELSE LET solution_id == solution_scores[1][1]
           overall_score == OverallOr0(solution_scores[1][2])
       IN IF overall_score > best_score
          THEN BestLoopStrict(Tail(solution_scores), Some(solution_id), overall_score)
          ELSE BestLoopStrict(Tail(solution_scores), best_solution_id, best_score)

BestSolution(solution_id, score, solution_scores) ==
  [solution_id |-> solution_id, score |-> score,
   details |-> IF ~IsNone(solution_id) /\ HasId(solution_scores, Val(solution_id))
               THEN ScoresOf(solution_scores, Val(solution_id)) ELSE None]

\* _find_best_solution (stage_07_decide.py:228-264).  raised: the KeyError of
\* solution_scores[recommended]["overall_score"] when that key is missing;
\* best is None for the empty dict returned on an empty score map.
_find_best_solution(solution_evaluation) ==
  LET solution_scores == solution_evaluation.solution_scores
      loop == BestLoopStrict(solution_scores, None, 0)
      recommended_solution_id == solution_evaluation.recommended_solution
  IN IF solution_scores = << >>
     THEN [raised |-> FALSE, best |-> None, score |-> 0]
     ELSE IF ~IsNone(recommended_solution_id)
               /\ HasId(solution_scores, Val(recommended_solution_id))
     THEN LET scores == ScoresOf(solution_scores, Val(recommended_solution_id))
          IN IF IsNone(scores)
             THEN [raised |-> TRUE, best |-> None, score |-> 0]
             ELSE [raised |-> FALSE, score |-> Val(scores),
                   best |-> Some(BestSolution(recommended_solution_id, Val(scores),
                                              solution_scores))]
     ELSE [raised |-> FALSE, score |-> loop[2],
           best |-> Some(BestSolution(loop[1], loop[2], solution_scores))]

\* An escalation test that never escalates.
NeedsEscalationNever(best_score) == FALSE

\* The escalation test with the threshold itself escalating.
NeedsEscalationAtThreshold(best_score) == best_score <= escalation_threshold

\* `if best_score < self.escalation_threshold` (stage_07_decide.py:84)
NeedsEscalation(best_score) == best_score < escalation_threshold

\* A DECIDE that takes an empty list of solutions for solutions.
decide_enter_unset_only(cur) ==
  IF IsNone(cur.retrieved_solutions)
  THEN Throw("Exception", "No solutions found to evaluate", FALSE, << >>)
  ELSE Call("solution_evaluation", << >>, << >>, None)

\* _evaluate_solutions (stage_07_decide.py:164-170) reads
\* state.get("enriched_records", {}).get(...) before the call.
decide_enter(cur) ==
  IF ~Truthy("retrieved_solutions", cur.retrieved_solutions)
  THEN Throw("Exception", "No solutions found to evaluate", FALSE, << >>)
  ELSE IF IsNone(cur.enriched_records)
  THEN Throw("AttributeError", NoneHasNoGet, TRUE, << >>)
  ELSE Call("solution_evaluation", << >>, << >>, None)

\* A DECIDE that adds nothing to the results of its abilities.
DecisionTailNothing(results, solution_evaluation) == results

\* stage_07_decide.py:106-110
DecisionTail(results, solution_evaluation) ==
  results \o << <<"decision_timestamp", "now">>, <<"decision_confidence", "0.5">> >>

\* The locals of execute after _find_best_solution has returned.
Found(solution_evaluation, found) ==
  Some([evaluation |-> solution_evaluation, best_solution |-> found.best,
        best_score |-> found.score])

WithAux(out, aux) == [out EXCEPT !.aux = aux]

decide_resume(tk, data) ==
  IF tk.ability = "solution_evaluation"
  THEN LET abilities == Append(tk.abilities, "solution_evaluation")
           results == << <<"solution_scores", Some(data)>> >>
           found == _find_best_solution(data)
       IN IF found.raised
          THEN Throw("KeyError", "'overall_score'", TRUE, abilities)
          ELSE IF NeedsEscalation(found.score)
          THEN \* _make_escalation_decision (stage_07_decide.py:202-210) reads
               \* state.get("calculated_flags", {}).get(...) before the call
               IF IsNone(Val(tk.cur).calculated_flags)
               THEN WithAux(Throw("AttributeError", NoneHasNoGet, TRUE, abilities),
                            Found(data, found))
               ELSE Call("escalation_decision", abilities, results, Found(data, found))
          ELSE WithAux(
                 Finish("completed", Append(abilities, "update_payload"),
                        Some("COMMON,ATLAS"),
                        Some(DecisionTail(
                               results \o
                                 << <<"escalation_decision", Some(FALSE)>>,
                                    <<"selected_solution", found.best>>,
                                    <<"decision_reasoning",
                                      Some(<<"Auto-resolved with solution score",
                                             found.score>>)>> >>,
                               data))),
                 Found(data, found))
  ELSE Finish("completed",
              tk.abilities \o <<"escalation_decision", "update_payload">>,
              Some("COMMON,ATLAS"),
              Some(DecisionTail(
                     tk.results \o
                       << <<"escalation_decision", Some(TRUE)>>,
                          <<"escalation_details", data>>,
                          <<"selected_solution", None>>,
                          <<"decision_reasoning",
                            Some(<<"Escalated due to low solution score",
                                   Val(tk.aux).best_score>>)>> >>,
                     Val(tk.aux).evaluation)))

\* ---- stage 8, UPDATE (stage_08_update.py:52-125)

\* _prepare_update_parameters tests `"sla_targets" in calculated_flags`
\* (stage_08_update.py:248-249) before the call.
update_enter(cur) ==
  IF ~Truthy("escalation_decision", cur.escalation_decision)
       /\ ~Truthy("selected_solution", cur.selected_solution)
  THEN Throw("Exception", "Missing decision information from DECIDE stage", FALSE, << >>)
  ELSE IF IsNone(cur.calculated_flags)
  THEN Throw("TypeError", NoneNotIterable, TRUE, << >>)
  ELSE Call("update_ticket", << >>, << >>, None)

\* solution_scores.get(solution_id, {}) (stage_08_update.py:214-216): the
\* lookup is made in the stored evaluation, whose keys are solution_scores and
\* recommended_solution and no solution id, so it yields the empty dict.
TopLevelScores(evaluation, solution_id) == None

\* _should_close_ticket (stage_08_update.py:199-219): it reads the key "id" of
\* the selected solution; a selected solution made by DECIDE has the key
\* solution_id and no key "id".
_should_close_ticket(state) ==
  IF Truthy("escalation_decision", state.escalation_decision) THEN FALSE
  ELSE IF Truthy("selected_solution", state.selected_solution)
  THEN LET selected_solution == Val(state.selected_solution)
           solution_id == IF "id" \in DOMAIN selected_solution
                          THEN selected_solution.id ELSE None
       IN /\ ~IsNone(solution_id)
          /\ OverallOr0(TopLevelScores(state.solution_scores, Val(solution_id))) >= 85
  ELSE FALSE

update_resume(tk, data) ==
  IF tk.ability = "update_ticket"
  THEN LET abilities == Append(tk.abilities, "update_ticket")
           results == << <<"ticket_updates", Some(data)>> >>
       IN IF _should_close_ticket(Val(tk.cur))
          THEN Call("close_ticket", abilities, results, None)
          ELSE Finish("completed", abilities, Some("ATLAS"),
                      Some(Append(results,
                                  <<"ticket_status",
                                    IF IsNone(data.new_status) THEN Some("in_progress")
                                    ELSE data.new_status>>)))
  ELSE Finish("completed", Append(tk.abilities, "close_ticket"), Some("ATLAS"),
              Some(Append(tk.results, <<"ticket_status", Some("closed")>>)))

\* ---- stage 9, CREATE (stage_09_create.py:48-114)

\* _determine_response_tone (stage_09_create.py:161-176) reads
\* state.get("parsed_request", {}).get(...) unless the case is escalated.
create_enter(cur) ==
  IF ~Truthy("ticket_updates", cur.ticket_updates)
       /\ ~Truthy("escalation_decision", cur.escalation_decision)
  THEN Throw("Exception", "Missing ticket update information from UPDATE stage",
             FALSE, << >>)
  ELSE IF ~Truthy("escalation_decision", cur.escalation_decision)
            /\ IsNone(cur.parsed_request)
  THEN Throw("AttributeError", NoneHasNoGet, FALSE, << >>)
  ELSE Call("response_generation", << >>, << >>, None)

create_resume(tk, data) ==
  Finish("completed", <<"response_generation">>, Some("COMMON"),
         Some(<< <<"generated_response", data.generated_response>>,
                 <<"response_metadata", "meta">> >>))

\* ---- stage 10, DO (stage_10_do.py:52-130)

\* _determine_required_api_calls (stage_10_do.py:218-219) calls .get on the
\* selected solution; _get_notification_preferences (stage_10_do.py:305-317)
\* on enriched_records.
do_enter(cur) ==
  IF ~Truthy("generated_response", cur.generated_response)
       /\ ~Truthy("selected_solution", cur.selected_solution)
  THEN Throw("Exception", "Missing response or solution information from previous stages",
             FALSE, << >>)
  ELSE IF IsNone(cur.selected_solution)
  THEN Throw("AttributeError", NoneHasNoGet, TRUE, << >>)
  ELSE Call("execute_api_calls", << >>, << >>, None)

do_resume(tk, data) ==
  IF tk.ability = "execute_api_calls"
  THEN LET abilities == Append(tk.abilities, "execute_api_calls")
           results == << <<"api_calls_executed", Some(data.api_calls_executed)>> >>
       IN IF IsNone(Val(tk.cur).enriched_records)
          THEN Throw("AttributeError", NoneHasNoGet, TRUE, abilities)
          ELSE Call("trigger_notifications", abilities, results, None)
  ELSE Finish("completed", Append(tk.abilities, "trigger_notifications"),
              Some("ATLAS,ATLAS"),
              Some(Append(tk.results,
                          <<"notifications_sent", Some(data.notifications_sent)>>)))

\* ---- stage 11, COMPLETE (stage_11_complete.py:48-111)

CountStatus(log, status) == Len(SelectSeq(log, LAMBDA e : e.status = status))

\* A final status that looks at the escalation decision before the errors.
_determine_final_status_escalation_first(state, errors) ==
  IF Truthy("escalation_decision", state.escalation_decision) THEN "escalated"
  ELSE IF errors # << >> THEN "completed_with_errors"
  ELSE IF state.ticket_status = Some("closed") THEN "resolved"
  ELSE "completed"

\* _determine_final_status (stage_11_complete.py:236-246)
_determine_final_status(state, errors) ==
  IF errors # << >> THEN "completed_with_errors"
  ELSE IF Truthy("escalation_decision", state.escalation_decision) THEN "escalated"
  ELSE IF state.ticket_status = Some("closed") THEN "resolved"
  ELSE "completed"

\* _generate_final_payload (stage_11_complete.py:113-198): the parts of the
\* payload that depend on the run.
_generate_final_payload(state, log, errors) ==
  [ticket_id |-> state.ticket_id,
   status |-> _determine_final_status(state, errors),
   escalated |-> state.escalation_decision,
   stages_completed |-> CountStatus(log, "completed"),
   stages_failed |-> CountStatus(log, "failed"),
   execution_log |-> log,
   errors |-> errors]

\* len(state.get("retrieved_solutions", [])) and the like: the keys are always
\* there, so a value of None is what len or `in` is applied to.
complete_enter(cur, log, errors) ==
  IF IsNone(cur.retrieved_solutions) \/ IsNone(cur.api_calls_executed)
       \/ IsNone(cur.notifications_sent)
  THEN Throw("TypeError", NoneHasNoLen, FALSE, << >>)
  ELSE IF IsNone(cur.extracted_entities)
  THEN Throw("TypeError", NoneNotIterable, FALSE, << >>)
  ELSE Finish("completed", <<"output_payload">>, None,
              Some(<< <<"final_payload", Some(_generate_final_payload(cur, log, errors))>>,
                      <<"workflow_completed", TRUE>>,
                      <<"completion_timestamp", "now">> >>))

\* ---- the executors as one table

ExecutorStages ==
  {"UNDERSTAND", "PREPARE", "ASK", "WAIT", "RETRIEVE", "DECIDE", "UPDATE",
   "CREATE", "DO", "COMPLETE"}

\* execute, from its start to the first awaited call or to its end.
Enter(st, stage, sid, customer_responses) ==
  LET cur == get_current_state(st, sid) IN
  CASE stage = "UNDERSTAND" -> understand_enter(cur)
    [] stage = "PREPARE" -> prepare_enter(cur)
    [] stage = "ASK" -> ask_enter(cur)
    [] stage = "WAIT" -> wait_enter(cur, customer_responses)
    [] stage = "RETRIEVE" -> retrieve_enter(cur)
    [] stage = "DECIDE" -> decide_enter(cur)
    [] stage = "UPDATE" -> update_enter(cur)
    [] stage = "CREATE" -> create_enter(cur)
    [] stage = "DO" -> do_enter(cur)
    [] OTHER -> complete_enter(cur, LogOf(st, cur), ErrorsOf(st, cur))

\* execute, from a successful response to the next awaited call or to its end.
Resume(tk, data) ==
  CASE tk.stage = "UNDERSTAND" -> understand_resume(tk, data)
    [] tk.stage = "PREPARE" -> prepare_resume(tk, data)
    [] tk.stage = "ASK" -> ask_resume(tk, data)
    [] tk.stage = "WAIT" -> wait_resume(tk, data)
    [] tk.stage = "RETRIEVE" -> retrieve_resume(tk, data)
    [] tk.stage = "DECIDE" -> decide_resume(tk, data)
    [] tk.stage = "UPDATE" -> update_resume(tk, data)
    [] tk.stage = "CREATE" -> create_resume(tk, data)
    [] OTHER -> do_resume(tk, data)

\* The abilities_executed argument of the except handler: the local list,
\* a literal list (ASK, CREATE, COMPLETE), or for DECIDE the local list when
\* it is in locals() and [] otherwise.  None: the local is read unassigned.
HandlerAbilities(stage, bound, abilities) ==
  CASE stage = "ASK" -> Some(<<"clarify_question">>)
    [] stage = "CREATE" -> Some(<<"response_generation">>)
    [] stage = "COMPLETE" -> Some(<<"output_payload">>)
    [] stage = "DECIDE" -> Some(IF bound THEN abilities ELSE << >>)
    [] OTHER -> IF bound THEN Some(abilities) ELSE None
-----------------------------------------------------------------------------
(* A stage execution is a coroutine: between two awaited capability calls   *)
(* it runs atomically.                                                      *)

Coroutines == {"a", "b"}

IdleTask ==
  [pc |-> "idle", stage |-> "", sid |-> << >>, input |-> None, cur |-> None,
   ability |-> "", bound |-> FALSE, abilities |-> << >>, results |-> << >>,
   aux |-> None, start |-> 0, calls |-> << >>, error |-> None, cause |-> None,
   returned |-> None]

\* execute(session_id) is called: start_time = datetime.now()
NewTask(stage, sid, customer_responses, now) ==
  [IdleTask EXCEPT !.stage = stage, !.sid = sid, !.input = customer_responses,
                   !.start = now]

SessionNotFound == "Session ID not found"

Error(etype, msg) == [etype |-> etype, msg |-> msg]

\* execute ends with an exception: error is the exception that leaves it,
\* cause the one first raised inside its try block (its __context__ when the
\* handler itself raises).
RaisedTask(tk, error, cause, aux) ==
  [tk EXCEPT !.pc = "raised", !.ability = "", !.aux = aux,
             !.error = Some(error), !.cause = Some(cause)]

\* The except handler of execute: it logs the failure, with the abilities
\* HandlerAbilities gives, and re-raises.  Reading an unassigned
\* abilities_executed raises UnboundLocalError before anything is logged; on
\* a session that is gone log_stage_execution raises ValueError.
Handle(st, tk, out, now) ==
  LET abilities == HandlerAbilities(tk.stage, out.bound, out.abilities)
      aux == IF IsNone(out.aux) THEN tk.aux ELSE out.aux
      cause == Error(out.etype, out.msg)
  IN IF IsNone(abilities)
     THEN [st |-> st,
           task |-> RaisedTask(tk, Error("UnboundLocalError", UnboundAbilities), cause, aux)]
     ELSE IF ~HasSession(st, tk.sid)
     THEN [st |-> st,
           task |-> RaisedTask(tk, Error("ValueError", SessionNotFound), cause, aux)]
     ELSE [st |-> log_stage_execution(st, tk.sid,
                    LogEntry(StageId[tk.stage], tk.stage, "failed", Val(abilities),
                             None, Some(now - tk.start), Some(out.msg))),
           task |-> RaisedTask(tk, cause, cause, aux)]

\* What an outcome does to the store and to the coroutine.
Apply(st, tk, out, now) ==
  LET aux == IF IsNone(out.aux) THEN tk.aux ELSE out.aux IN
  IF out.kind = "call"
  THEN [st |-> st,
        task |-> [tk EXCEPT !.pc = "await", !.ability = out.ability, !.bound = TRUE,
                            !.abilities = out.abilities, !.results = out.results,
                            !.aux = aux, !.calls = Append(@, out.ability)]]
  ELSE IF out.kind = "throw"
  THEN Handle(st, tk, out, now)
  ELSE IF ~HasSession(st, tk.sid)
  THEN Handle(st, tk, Throw("ValueError", SessionNotFound, TRUE, out.abilities), now)
  ELSE LET st1 == IF IsNone(out.updates) THEN st
                  ELSE update_state(st, tk.sid, Val(out.updates), tk.stage, now)
           st2 == log_stage_execution(st1, tk.sid,
                    LogEntry(StageId[tk.stage], tk.stage, out.status, out.abilities,
                             out.server, Some(now - tk.start), None))
       IN [st |-> st2,
           task |-> [tk EXCEPT !.pc = "done", !.ability = "",
                               !.abilities = out.abilities, !.aux = aux,
                               !.returned = Some(IF IsNone(out.updates) THEN Val(tk.cur)
                                                 ELSE get_current_state(st1, tk.sid))]]

\* execute from its call to its first await or its end.
Begin(st, stage, sid, customer_responses, now) ==
  LET tk == NewTask(stage, sid, customer_responses, now) IN
  IF ~HasSession(st, sid)
  THEN Handle(st, tk, Throw("ValueError", SessionNotFound, FALSE, << >>), now)
  ELSE Apply(st, [tk EXCEPT !.cur = Some(get_current_state(st, sid))],
             Enter(st, stage, sid, customer_responses), now)

\* The awaited call returns a successful response.
RespondOk(st, tk, data, now) == Apply(st, tk, Resume(tk, data), now)

\* A failure after which the results gathered so far are written.
RespondFailedKeepingResults(st, tk, now) ==
  Handle(IF HasSession(st, tk.sid)
         THEN update_state(st, tk.sid, tk.results, tk.stage, now) ELSE st,
         tk, Throw("Exception", FailureMessage(tk.ability), tk.bound, tk.abilities), now)

\* A failure answered by invoking the same ability once more.
RespondFailedRetry(st, tk, now) ==
  Apply(st, tk, Call(tk.ability, tk.abilities, tk.results, None), now)

\* The awaited call returns a failure: `if not response.success: raise`.
RespondFailed(st, tk, now) ==
  Handle(st, tk, Throw("Exception", FailureMessage(tk.ability), tk.bound, tk.abilities), now)

-----------------------------------------------------------------------------
(* Stage 1, INTAKE (stage_01_intake.py)                                     *)

AtSign == "@"
ValidPriorities == {"low", "medium", "high", "urgent"}

RECURSIVE Join(_)
Join(errors) ==
  IF Len(errors) = 1 THEN errors[1] ELSE errors[1] \o "," \o Join(Tail(errors))

\* `"@" not in email`, an email being the sequence of its parts
HasAtSign(email) == \E i \in 1..Len(email) : email[i] = AtSign

\* The whitespace-only strings among the inputs: the ones str.strip() makes
\* empty (stage_01_intake.py:144).
WhitespaceOnly == {" ", "  "}

\* The check of one required field (stage_01_intake.py:141-145): empty is
\* the empty value of its type, blank tells that strip() leaves nothing.
RequiredField(field, value, empty, blank) ==
  IF IsNone(value) \/ Val(value) = empty
  THEN <<"Missing required field: " \o field>>
  ELSE IF blank
  THEN <<"Field '" \o field \o "' must be a non-empty string">>
  ELSE << >>

\* _validate_payload (stage_01_intake.py:127-163) on a payload whose values
\* are strings; a field that is None is a key the payload does not have.  An
\* email is the sequence of its parts.
_validate_payload(payload) ==
  RequiredField("customer_name", payload.customer_name, "",
                ~IsNone(payload.customer_name)
                  /\ Val(payload.customer_name) \in WhitespaceOnly)
  \o RequiredField("email", payload.email, << >>,
                   ~IsNone(payload.email)
                     /\ \A i \in 1..Len(Val(payload.email)) :
                          Val(payload.email)[i] \in WhitespaceOnly)
  \o RequiredField("query", payload.query, "",
                   ~IsNone(payload.query) /\ Val(payload.query) \in WhitespaceOnly)
  \o (IF ~IsNone(payload.email) /\ Val(payload.email) # << >>
         /\ ~HasAtSign(Val(payload.email))
      THEN <<"Invalid email format">> ELSE << >>)
  \o (IF ~IsNone(payload.priority) /\ Val(payload.priority) # ""
         /\ Val(payload.priority) \notin ValidPriorities
      THEN <<"Invalid priority '" \o Val(payload.priority)
               \o "'. Must be: low, medium, high, or urgent">>
      ELSE << >>)
  \o (IF ~IsNone(payload.query) /\ Len(Val(payload.query)) > 5000
      THEN <<"Query too long (max 5000 characters)">> ELSE << >>)

OrDefault(o, default) == IF IsNone(o) THEN default ELSE Val(o)

\* str(e) of the ValidationError of ExecutionLog
DurationNotInt == "1 validation error for ExecutionLog duration_ms"

\* The except handler of IntakeStage.execute (stage_01_intake.py:99-125): a
\* session for error tracking, with the failure logged in it; nothing is
\* raised, so execute returns None.
IntakeHandler(st, payload, msg, n, now) ==
  LET sid == Uuid(n)
      st1 == create_initial_state(st, sid,
               OrDefault(payload.customer_name, "Unknown"),
               OrDefault(payload.email, <<"unknown", AtSign, "example.com">>),
               OrDefault(payload.query, "Failed to process"),
               "high", None, now)
  IN [st |-> log_stage_execution(st1, sid,
               LogEntry(1, "INTAKE", "failed", <<"accept_payload">>, None, Some(0),
                        Some(msg))),
      returned |-> None, used |-> n]

\* IntakeStage.execute (stage_01_intake.py:36-125).  n is the next fresh
\* session id.  The duration logged on success is a float
\* (stage_01_intake.py:76) for a field declared Optional[int]: accepted tells
\* whether ExecutionLog takes it; when it does not, the ValidationError goes
\* to the handler, after the session was created.
intake_execute(st, payload, accepted, n, now) ==
  LET validation_errors == _validate_payload(payload) IN
  IF validation_errors # << >>
  THEN IntakeHandler(st, payload,
                     "Payload validation failed: " \o Join(validation_errors), n, now)
  ELSE LET sid == Uuid(n)
           st1 == create_initial_state(st, sid, Val(payload.customer_name),
                    Val(payload.email), Val(payload.query),
                    OrDefault(payload.priority, "medium"), payload.ticket_id, now)
       IN IF accepted
          THEN [st |-> log_stage_execution(st1, sid,
                         LogEntry(1, "INTAKE", "completed", <<"accept_payload">>, None,
                                  Some(0), None)),
                returned |-> Some(get_current_state(st1, sid)), used |-> n]
          ELSE IntakeHandler(st1, payload, DurationNotInt, n + 1, now)

-----------------------------------------------------------------------------
(* The engine (langgraph_agent.py): the compiled graph and                  *)
(* process_customer_request.                                                *)

END == "END"

\* A graph in which WAIT is passed over.
EdgesPastWait ==
  [intake |-> "understand", understand |-> "prepare", prepare |-> "ask",
   ask |-> "retrieve", wait |-> "retrieve", retrieve |-> "decide",
   update |-> "create", create |-> "do", do |-> "complete", complete |-> END]

\* A graph in which WAIT goes back to ASK.
EdgesBackToAsk ==
  [intake |-> "understand", understand |-> "prepare", prepare |-> "ask",
   ask |-> "wait", wait |-> "ask", retrieve |-> "decide",
   update |-> "create", create |-> "do", do |-> "complete", complete |-> END]

\* add_edge (langgraph_agent.py:120-125, 137-140)
Edges ==
  [intake |-> "understand", understand |-> "prepare", prepare |-> "ask",
   ask |-> "wait", wait |-> "retrieve", retrieve |-> "decide",
   update |-> "create", create |-> "do", do |-> "complete", complete |-> END]

\* add_conditional_edges (langgraph_agent.py:128-135)
ConditionalEdges == [update |-> "update", escalate |-> END]

\* _decide_next_stage (langgraph_agent.py:290-305); the graph state is None
\* while it holds the input payload only.
_decide_next_stage(state) ==
  IF ~IsNone(state) /\ Truthy("escalation_decision", Val(state).escalation_decision)
  THEN "escalate" ELSE "update"

\* The node that follows a node that has returned.
NextNode(node, state) ==
  IF node = "decide" THEN ConditionalEdges[_decide_next_stage(state)]
  ELSE Edges[node]

StageOf ==
  [intake |-> "INTAKE", understand |-> "UNDERSTAND", prepare |-> "PREPARE",
   ask |-> "ASK", wait |-> "WAIT", retrieve |-> "RETRIEVE", decide |-> "DECIDE",
   update |-> "UPDATE", create |-> "CREATE", do |-> "DO", complete |-> "COMPLETE"]

\* stage_name.lower()
Lower(stage_name) == CHOOSE node \in DOMAIN StageOf : StageOf[node] = stage_name

ExecutorNodes == {"understand", "decide"}
SimulatedNodes == {"prepare", "ask", "wait", "update", "create", "do"}
InlineNodes == {"retrieve", "complete"}

NoRun ==
  [status |-> "idle", node |-> "", inside |-> FALSE, payload |-> None,
   gstate |-> None, visited |-> << >>, finished |-> 0, error |-> None,
   result |-> None]

RECURSIVE SumDurations(_)
SumDurations(log) ==
  IF log = << >> THEN 0
  ELSE OrDefault(Head(log).duration_ms, 0) + SumDurations(Tail(log))

\* _calculate_processing_time (langgraph_agent.py:341-347)
_calculate_processing_time(log) == SumDurations(log)

\* The envelope of process_customer_request (langgraph_agent.py:169-179);
\* result is the last graph state, None when no node has written to it.
FinalPayload(st, result) ==
  IF IsNone(result)
  THEN [ticket_id |-> None, status |-> Some("processed"), resolution |-> None,
        escalated |-> Some(FALSE), execution_log |-> << >>, session_id |-> << >>,
        processing_time |-> 0, stages_completed |-> 0]
  ELSE LET state == Val(result)
           log == LogOf(st, state)
       IN [ticket_id |-> state.ticket_id,
           status |-> state.ticket_status,
           resolution |-> state.generated_response,
           escalated |-> state.escalation_decision,
           execution_log |-> log,
           session_id |-> state.session_id,
           processing_time |-> _calculate_processing_time(log),
           stages_completed |-> CountStatus(log, "completed")]

\* A node has returned new_state (None: it returned nothing, and the graph
\* state stays): the graph goes to the next node, or ainvoke returns at END
\* and process_customer_request builds the envelope.
Advance(st, r, returned) ==
  LET gstate == IF IsNone(returned) THEN r.gstate ELSE returned
      next == NextNode(r.node, gstate)
  IN IF next = END
     THEN [r EXCEPT !.status = "returned", !.node = END, !.inside = FALSE,
                    !.gstate = gstate, !.finished = @ + 1,
                    !.result = Some(FinalPayload(st, gstate))]
     ELSE [r EXCEPT !.node = next, !.inside = FALSE, !.gstate = gstate,
                    !.finished = @ + 1]

\* An engine that goes on with the next node when a node has raised.
ContinueAfterRaise(st, r, error) ==
  [Advance(st, r, None) EXCEPT !.error = Some(error)]

\* An exception leaves the node: ainvoke raises, and process_customer_request
\* re-raises (langgraph_agent.py:188-190).
Propagate(st, r, error) ==
  [r EXCEPT !.status = "raised", !.inside = FALSE, !.finished = @ + 1,
            !.error = Some(error)]

\* _simulate_stage_execution (langgraph_agent.py:307-339)
_simulate_stage_execution(st, state, stage_name, stage_id, now) ==
  LET sid == state.session_id
      st1 == log_stage_execution(st, sid,
               LogEntry(stage_id, stage_name, "completed",
                        <<"simulated_" \o Lower(stage_name)>>, Some("SIMULATED"), Some(100),
                        None))
      updates == IF stage_name = "CREATE"
                 THEN << <<"generated_response", Some("Dear customer")>> >>
                 ELSE << >>
  IN update_state(st1, sid, updates, stage_name, now)

simulated_solutions == << Solution("SOL-001", 92) >>

\* _execute_retrieve_stage (langgraph_agent.py:222-241)
_execute_retrieve_stage(st, state, now) ==
  update_state(st, state.session_id,
               << <<"retrieved_solutions", Some(simulated_solutions)>> >>,
               "RETRIEVE", now)

\* _execute_complete_stage (langgraph_agent.py:263-288); state is the graph
\* state the node is given.
_execute_complete_stage(st, state, now) ==
  LET log == LogOf(st, state)
      final_payload ==
        [ticket_id |-> state.ticket_id, status |-> "resolved",
         escalated |-> state.escalation_decision,
         stages_executed |-> Len(log),
         total_time |-> _calculate_processing_time(log)]
  IN update_state(st, state.session_id,
                  << <<"final_payload", Some(final_payload)>> >>, "COMPLETE", now)
-----------------------------------------------------------------------------
(* The initial state: an empty store, no coroutine, no engine run.          *)

\* No call yet.  sid is the session the call named (the new one for
\* create_initial_state), updates its update map or its ticket_id argument.
NoCall == [op |-> "none", sid |-> None, raised |-> "None", updates |-> << >>]

\* MCPClient.__init__ (mcp_client.py:51-80): no request sent, no call made.
NoRequest == [requests |-> << >>, ability_name |-> None, raised |-> "None",
              response |-> None]

InitCommon ==
  /\ hist = << >>
  /\ logHeap = << >>
  /\ errHeap = << >>
  /\ nextSid = 1
  /\ clock = 0
  /\ ret = NoCall
  /\ nUpd = << >>
  /\ nExec = 0
  /\ tasks = [c \in Coroutines |-> IdleTask]
  /\ run = NoRun
  /\ mcp = NoRequest

SetStore(st) ==
  /\ hist' = st.h
  /\ logHeap' = st.lg
  /\ errHeap' = st.er

Returned(op, sid, updates) ==
  ret' = [op |-> op, sid |-> sid, raised |-> "None", updates |-> updates]

\* The call ended with the exception error and did nothing else.
Raised(op, sid, error) ==
  ret' = [op |-> op, sid |-> sid, raised |-> error, updates |-> << >>]

JaneEmail == <<"jane", AtSign, "x.com">>

-----------------------------------------------------------------------------
(* Direct calls of the StateManager methods, by any caller of the store.    *)
(* Every call that changes the store takes one tick of the clock.          *)

\* The session ids a caller may pass: those ever issued and one never issued.
CallerSids == {Uuid(n) : n \in 1..nextSid}

\* The update maps of direct calls, over a stage-output key, an identity key,
\* the errors key (with a new list) and two keys that are no state keys.
UpdateMaps ==
  LET pr == <<"parsed_request", Some("data")>>
      tk == <<"ticket_id", Some(<<"T-99">>)>>
      er == <<"errors", << >> >>
      b1 == <<"bogus", "v">>
      b2 == <<"extra", "v">>
  IN { << >>, <<pr>>, <<tk>>, <<b1>>, <<b1, b2>>, <<pr, b1>>, <<b1, er>>, <<er, b1>> }

CallerEntries ==
  { LogEntry(4, "ASK", "completed", <<"clarify_question">>, Some("ATLAS"), Some(5), None),
    LogEntry(4, "ASK", "failed", << >>, None, Some(5), Some("boom")),
    LogEntry(4, "ASK", "failed", << >>, None, Some(5), Some("")) }

CallCreate ==
  /\ clock < MaxOps
  /\ \E ticket_id \in {None, Some(<<"">>), Some(<<"T-77">>)} :
       LET sid == Uuid(nextSid) IN
       /\ SetStore(create_initial_state(Store, sid, "Jane", JaneEmail, "q",
                                        "medium", ticket_id, clock))
       /\ nUpd' = (sid :> 0) @@ nUpd
       /\ Returned("create_initial_state", sid, << <<"ticket_id", ticket_id>> >>)
  /\ nextSid' = nextSid + 1
  /\ clock' = clock + 1
  /\ UNCHANGED <<mcp, nExec, tasks, run>>

CallUpdate ==
  /\ clock < MaxOps
  /\ \E sid \in DOMAIN hist, updates \in UpdateMaps :
       /\ SetStore(update_state(Store, sid, updates, "ASK", clock))
       /\ nUpd' = [nUpd EXCEPT ![sid] = @ + 1]
       /\ Returned("update_state", sid, updates)
  /\ clock' = clock + 1
  /\ UNCHANGED <<mcp, nextSid, nExec, tasks, run>>

\* state_manager.py:186-187
CallUpdateUnknown ==
  /\ \E sid \in CallerSids :
       /\ SessionCheck(Store, sid) # "None"
       /\ Raised("update_state", sid, SessionCheck(Store, sid))
  /\ UNCHANGED <<mcp, hist, logHeap, errHeap, nextSid, clock, nUpd, nExec, tasks, run>>

CallLog ==
  /\ clock < MaxOps
  /\ \E sid \in DOMAIN hist, entry \in CallerEntries :
       /\ SetStore(log_stage_execution(Store, sid, entry))
       /\ Returned("log_stage_execution", sid, << >>)
  /\ clock' = clock + 1
  /\ UNCHANGED <<mcp, nextSid, nUpd, nExec, tasks, run>>

\* state_manager.py:237-238
CallLogUnknown ==
  /\ \E sid \in CallerSids :
       /\ SessionCheck(Store, sid) # "None"
       /\ Raised("log_stage_execution", sid, SessionCheck(Store, sid))
  /\ UNCHANGED <<mcp, hist, logHeap, errHeap, nextSid, clock, nUpd, nExec, tasks, run>>

\* state_manager.py:209-213
CallGetCurrent ==
  /\ \E sid \in CallerSids :
       IF SessionCheck(Store, sid) = "None"
       THEN Returned("get_current_state", sid, << >>)
       ELSE Raised("get_current_state", sid, SessionCheck(Store, sid))
  /\ UNCHANGED <<mcp, hist, logHeap, errHeap, nextSid, clock, nUpd, nExec, tasks, run>>

CallCleanup ==
  /\ clock < MaxOps
  /\ \E sid \in CallerSids :
       /\ SetStore(cleanup_session(Store, sid))
       /\ Returned("cleanup_session", sid, << >>)
  /\ clock' = clock + 1
  /\ UNCHANGED <<mcp, nextSid, nUpd, nExec, tasks, run>>

NextStore ==
  \/ CallCreate
  \/ CallUpdate
  \/ CallUpdateUnknown
  \/ CallLog
  \/ CallLogUnknown
  \/ CallGetCurrent
  \/ CallCleanup

SpecStore == InitCommon /\ [][NextStore]_vars

-----------------------------------------------------------------------------
(* The stage executors called one by one on a session: a caller opens a     *)
(* session, may set fields with update_state as the earlier stages of a     *)
(* workflow would have, and calls execute of any stage 2 to 11.             *)

Understood == << <<"parsed_request", Some("data")>>, <<"extracted_entities", Some("data")>> >>
Prepared ==
  Understood \o << <<"normalized_fields", Some("data")>>,
                   <<"enriched_records", Some("data")>>,
                   <<"calculated_flags", Some("data")>> >>
Asked ==
  Prepared \o << <<"clarification_needed", Some(TRUE)>>, <<"questions_asked", Some(<<"q1">>)>> >>
Found1 == << <<"retrieved_solutions", Some(<< Solution("SOL-001", 9) >>)>> >>
Auto ==
  LET evaluation == [solution_scores |-> << <<"SOL-001", Some(95)>> >>,
                     recommended_solution |-> None]
  IN << <<"solution_scores", Some(evaluation)>>,
        <<"escalation_decision", Some(FALSE)>>,
        <<"selected_solution", _find_best_solution(evaluation).best>> >>
Escalated == << <<"escalation_decision", Some(TRUE)>> >>
Updated ==
  << <<"ticket_updates", Some([new_status |-> None])>>,
     <<"ticket_status", Some("in_progress")>> >>
Closed ==
  << <<"ticket_updates", Some([new_status |-> None])>>,
     <<"ticket_status", Some("closed")>> >>
\* decision_timestamp is a key DECIDE writes and the state does not have.
Stamped == << <<"decision_timestamp", "now">> >>
Created == << <<"generated_response", Some("Dear Jane")>> >>
Done == << <<"api_calls_executed", Some(<< >>)>>, <<"notifications_sent", Some(<< >>)>> >>

\* The fields a caller sets before the stage calls: those of a workflow that
\* came to some stage, with or without the outputs of PREPARE.
Seeds ==
  { Understood, Prepared, Asked,
    Understood \o Found1,
    Understood \o << <<"enriched_records", Some("data")>> >> \o Found1,
    Prepared \o << <<"retrieved_solutions", Some(<< >>)>> >>,
    Prepared \o Found1,
    Prepared \o Found1 \o Auto,
    Prepared \o Found1 \o Escalated,
    Prepared \o Found1 \o Auto \o Updated,
    Found1 \o Auto \o Updated \o Created,
    Prepared \o Found1 \o Auto \o Updated \o Created \o Done,
    Prepared \o Found1 \o Auto \o Closed \o Created \o Done,
    Prepared \o Found1 \o Escalated \o Done,
    Prepared \o Found1 \o Escalated \o Stamped \o Done }

StageOpen ==
  /\ DOMAIN hist = {}
  /\ LET sid == Uuid(nextSid) IN
     /\ SetStore(create_initial_state(Store, sid, "Jane", JaneEmail, "q", "medium",
                                      None, clock))
     /\ nUpd' = (sid :> 0) @@ nUpd
  /\ nextSid' = nextSid + 1
  /\ clock' = clock + 1
  /\ UNCHANGED <<mcp, ret, nExec, tasks, run>>

StageSeed ==
  /\ nExec = 0
  /\ \E sid \in DOMAIN hist, updates \in Seeds :
       /\ nUpd[sid] = 0
       /\ SetStore(update_state(Store, sid, updates, "SETUP", clock))
       /\ nUpd' = [nUpd EXCEPT ![sid] = @ + 1]
  /\ clock' = clock + 1
  /\ UNCHANGED <<mcp, ret, nextSid, nExec, tasks, run>>

\* execute(session_id) of a stage, up to its first await or to its end
StageExecute ==
  /\ nExec < MaxExec
  /\ tasks["a"].pc # "await"
  /\ \E sid \in DOMAIN hist, stage \in ExecutorStages,
        customer_responses \in {None, Some("answers")} :
       /\ customer_responses # None => stage = "WAIT"
       /\ LET r == Begin(Store, stage, sid, customer_responses, clock) IN
          /\ SetStore(r.st)
          /\ tasks' = [tasks EXCEPT !["a"] = r.task]
  /\ nExec' = nExec + 1
  /\ clock' = clock + 1
  /\ UNCHANGED <<mcp, ret, nextSid, nUpd, run>>

\* the awaited capability call returns success
StageResponse ==
  /\ tasks["a"].pc = "await"
  /\ \E data \in DataOf(tasks["a"].ability) :
       LET r == RespondOk(Store, tasks["a"], data, clock) IN
       /\ SetStore(r.st)
       /\ tasks' = [tasks EXCEPT !["a"] = r.task]
  /\ clock' = clock + 1
  /\ UNCHANGED <<mcp, ret, nextSid, nUpd, nExec, run>>

\* the awaited capability call returns failure
StageResponseFailed ==
  /\ tasks["a"].pc = "await"
  /\ LET r == RespondFailed(Store, tasks["a"], clock) IN
     /\ SetStore(r.st)
     /\ tasks' = [tasks EXCEPT !["a"] = r.task]
  /\ clock' = clock + 1
  /\ UNCHANGED <<mcp, ret, nextSid, nUpd, nExec, run>>

NextStage ==
  \/ StageOpen
  \/ StageSeed
  \/ StageExecute
  \/ StageResponse
  \/ StageResponseFailed

SpecStage == InitCommon /\ [][NextStage]_vars

-----------------------------------------------------------------------------
(* DECIDE and then COMPLETE on one session: a caller opens and seeds a       *)
(* session as above, calls execute of DECIDE and, once it has completed,     *)
(* execute of COMPLETE.                                                       *)

DecideExecute ==
  /\ nExec = 0
  /\ \E sid \in DOMAIN hist :
       LET r == Begin(Store, "DECIDE", sid, None, clock) IN
       /\ SetStore(r.st)
       /\ tasks' = [tasks EXCEPT !["a"] = r.task]
  /\ nExec' = nExec + 1
  /\ clock' = clock + 1
  /\ UNCHANGED <<mcp, ret, nextSid, nUpd, run>>

CompleteExecute ==
  /\ tasks["a"].stage = "DECIDE" /\ tasks["a"].pc = "done"
  /\ LET r == Begin(Store, "COMPLETE", tasks["a"].sid, None, clock) IN
     /\ SetStore(r.st)
     /\ tasks' = [tasks EXCEPT !["a"] = r.task]
  /\ nExec' = nExec + 1
  /\ clock' = clock + 1
  /\ UNCHANGED <<mcp, ret, nextSid, nUpd, run>>

NextDecide ==
  \/ StageOpen
  \/ StageSeed
  \/ DecideExecute
  \/ CompleteExecute
  \/ StageResponse
  \/ StageResponseFailed

SpecDecide == InitCommon /\ [][NextDecide]_vars

-----------------------------------------------------------------------------
(* WAIT called again and again on one session: a caller opens and seeds a    *)
(* session as above and calls execute of WAIT up to MaxWaits times, with or  *)
(* without an answer payload.                                                *)

MaxWaits == 3

WaitExecute ==
  /\ nExec < MaxWaits
  /\ tasks["a"].pc # "await"
  /\ \E sid \in DOMAIN hist, customer_responses \in {None, Some("answers")} :
       LET r == Begin(Store, "WAIT", sid, customer_responses, clock) IN
       /\ SetStore(r.st)
       /\ tasks' = [tasks EXCEPT !["a"] = r.task]
  /\ nExec' = nExec + 1
  /\ clock' = clock + 1
  /\ UNCHANGED <<mcp, ret, nextSid, nUpd, run>>

NextWait ==
  \/ StageOpen
  \/ StageSeed
  \/ WaitExecute
  \/ StageResponse
  \/ StageResponseFailed

SpecWait == InitCommon /\ [][NextWait]_vars

-----------------------------------------------------------------------------
(* One engine run: process_customer_request(input_payload).                 *)

\* s repeated n times
RECURSIVE Repeat(_, _)
Repeat(s, n) ==
  IF n = 0 THEN ""
  ELSE LET half == Repeat(s, n \div 2) IN
       IF n % 2 = 0 THEN half \o half ELSE half \o half \o s

\* A query of 5000 characters and one of 5001.
LongQueries == {Repeat("q", 5000), Repeat("q", 5001)}

Payloads ==
  [customer_name : {None, Some("Jane"), Some(""), Some(" ")},
   email : {Some(JaneEmail), Some(<<"jane.x.com">>), Some(<<" ">>)},
   query : {None, Some("q")} \cup {Some(q) : q \in LongQueries},
   priority : {None, Some("urgent"), Some("bogus"), Some("")},
   ticket_id : {None, Some(<<"T-77">>)}]

\* process_customer_request is called: ainvoke starts at the entry point.
ProcessRequest ==
  /\ run.status = "idle"
  /\ \E input_payload \in Payloads :
       run' = [NoRun EXCEPT !.status = "running", !.node = "intake",
                            !.payload = Some(input_payload)]
  /\ UNCHANGED <<mcp, hist, logHeap, errHeap, nextSid, clock, ret, nUpd, nExec, tasks>>

\* _execute_intake_stage (langgraph_agent.py:194-197)
NodeIntake ==
  /\ run.status = "running" /\ run.node = "intake"
  /\ \E accepted \in BOOLEAN :
       LET r == intake_execute(Store, Val(run.payload), accepted, nextSid, clock) IN
       /\ SetStore(r.st)
       /\ nextSid' = r.used + 1
       /\ run' = Advance(r.st, [run EXCEPT !.visited = Append(@, "INTAKE")], r.returned)
  /\ clock' = clock + 1
  /\ UNCHANGED <<mcp, ret, nUpd, nExec, tasks>>

\* What the engine does once execute of the node's stage has come to an
\* await, returned or raised.
AfterExecute(st, r, task) ==
  IF task.pc = "await" THEN [r EXCEPT !.inside = TRUE]
  ELSE IF task.pc = "done" THEN Advance(st, r, task.returned)
  ELSE Propagate(st, r, Val(task.error))

\* _execute_understand_stage and _execute_decide_stage
\* (langgraph_agent.py:199-202, 243-246): state["session_id"] is a KeyError
\* while the graph state holds the input payload only.
NodeExecute ==
  /\ run.status = "running" /\ run.node \in ExecutorNodes /\ ~run.inside
  /\ LET r0 == [run EXCEPT !.visited = Append(@, StageOf[run.node])] IN
     IF IsNone(run.gstate)
     THEN /\ run' = Propagate(Store, r0, Error("KeyError", "'session_id'"))
          /\ UNCHANGED <<mcp, hist, logHeap, errHeap, tasks>>
     ELSE LET r == Begin(Store, StageOf[run.node], Val(run.gstate).session_id, None, clock) IN
          /\ SetStore(r.st)
          /\ tasks' = [tasks EXCEPT !["a"] = r.task]
          /\ run' = AfterExecute(r.st, r0, r.task)
  /\ clock' = clock + 1
  /\ UNCHANGED <<mcp, ret, nextSid, nUpd, nExec>>

NodeResponse ==
  /\ run.status = "running" /\ run.inside
  /\ \E data \in DataOf(tasks["a"].ability) :
       LET r == RespondOk(Store, tasks["a"], data, clock) IN
       /\ SetStore(r.st)
       /\ tasks' = [tasks EXCEPT !["a"] = r.task]
       /\ run' = AfterExecute(r.st, run, r.task)
  /\ clock' = clock + 1
  /\ UNCHANGED <<mcp, ret, nextSid, nUpd, nExec>>

NodeResponseFailed ==
  /\ run.status = "running" /\ run.inside
  /\ LET r == RespondFailed(Store, tasks["a"], clock) IN
     /\ SetStore(r.st)
     /\ tasks' = [tasks EXCEPT !["a"] = r.task]
     /\ run' = AfterExecute(r.st, run, r.task)
  /\ clock' = clock + 1
  /\ UNCHANGED <<mcp, ret, nextSid, nUpd, nExec>>

\* The nodes of the stages the engine simulates (langgraph_agent.py:204-220,
\* 248-261).
NodeSimulated ==
  /\ run.status = "running" /\ run.node \in SimulatedNodes
  /\ LET stage_name == StageOf[run.node]
         st == _simulate_stage_execution(Store, Val(run.gstate), stage_name,
                                         StageId[stage_name], clock)
     IN /\ SetStore(st)
        /\ run' = Advance(st, [run EXCEPT !.visited = Append(@, stage_name)],
                          Some(get_current_state(st, Val(run.gstate).session_id)))
  /\ clock' = clock + 1
  /\ UNCHANGED <<mcp, ret, nextSid, nUpd, nExec, tasks>>

\* The nodes the engine has a body of its own for: RETRIEVE and COMPLETE.
NodeInline ==
  /\ run.status = "running" /\ run.node \in InlineNodes
  /\ LET stage_name == StageOf[run.node]
         st == IF run.node = "retrieve"
               THEN _execute_retrieve_stage(Store, Val(run.gstate), clock)
               ELSE _execute_complete_stage(Store, Val(run.gstate), clock)
     IN /\ SetStore(st)
        /\ run' = Advance(st, [run EXCEPT !.visited = Append(@, stage_name)],
                          Some(get_current_state(st, Val(run.gstate).session_id)))
  /\ clock' = clock + 1
  /\ UNCHANGED <<mcp, ret, nextSid, nUpd, nExec, tasks>>

NextEngine ==
  \/ ProcessRequest
  \/ NodeIntake
  \/ NodeExecute
  \/ NodeResponse
  \/ NodeResponseFailed
  \/ NodeSimulated
  \/ NodeInline

SpecEngine == InitCommon /\ [][NextEngine]_vars

\* The same run under its scheduling: the event loop runs a node that is
\* ready, and every awaited capability call returns, with success or with a
\* failure.
SpecEngineLive ==
  /\ SpecEngine
  /\ WF_vars(NodeIntake \/ NodeExecute \/ NodeSimulated \/ NodeInline)
  /\ WF_vars(NodeResponse \/ NodeResponseFailed)

-----------------------------------------------------------------------------
(* The capability client called directly: any caller, any ability name.     *)

MaxCalls == 2

\* The names a caller passes: the fifteen of the table and two that are not
\* in it.
AbilityNames == DOMAIN server_mapping \cup {"summarize_ticket", ""}

CallAbility ==
  /\ Len(mcp.requests) < MaxCalls
  /\ \E ability_name \in AbilityNames, answered \in BOOLEAN :
       mcp' = execute_ability(mcp.requests, ability_name, answered)
  /\ UNCHANGED <<hist, logHeap, errHeap, nextSid, clock, ret, nUpd, nExec, tasks, run>>

NextClient == CallAbility

SpecClient == InitCommon /\ [][NextClient]_vars

-----------------------------------------------------------------------------
(* Two stage executions in one event loop, on one session or on two: a      *)
(* coroutine runs from an await to its next await without a switch, so each *)
(* action is one such stretch.                                              *)

MaxSessions == 2

\* The stages the two callers run.
PairStages == {"UNDERSTAND", "WAIT"}

PairOpen ==
  /\ nExec = 0
  /\ Cardinality(DOMAIN hist) < MaxSessions
  /\ LET sid == Uuid(nextSid) IN
     /\ SetStore(create_initial_state(Store, sid, "Jane", JaneEmail, "q", "medium",
                                      None, clock))
     /\ nUpd' = (sid :> 0) @@ nUpd
  /\ nextSid' = nextSid + 1
  /\ clock' = clock + 1
  /\ UNCHANGED <<mcp, ret, nExec, tasks, run>>

\* A caller sets the outputs of the stages up to ASK, before or between the
\* executions.
PairSeed ==
  /\ \E sid \in DOMAIN hist :
       /\ nUpd[sid] = 0
       /\ SetStore(update_state(Store, sid, Asked, "SETUP", clock))
       /\ nUpd' = [nUpd EXCEPT ![sid] = @ + 1]
       /\ Returned("update_state", sid, Asked)
  /\ clock' = clock + 1
  /\ UNCHANGED <<mcp, nextSid, nExec, tasks, run>>

\* execute(session_id) of a stage is called by a caller whose coroutine has
\* not run yet; b starts after a.
PairExecute ==
  /\ \E c \in Coroutines, sid \in DOMAIN hist, stage \in PairStages,
        customer_responses \in {None, Some("answers")} :
       /\ tasks[c].pc = "idle"
       /\ c = "b" => tasks["a"].pc # "idle"
       /\ customer_responses # None => stage = "WAIT"
       /\ LET r == Begin(Store, stage, sid, customer_responses, clock) IN
          /\ SetStore(r.st)
          /\ tasks' = [tasks EXCEPT ![c] = r.task]
  /\ nExec' = nExec + 1
  /\ clock' = clock + 1
  /\ UNCHANGED <<mcp, ret, nextSid, nUpd, run>>

\* the call a coroutine awaits returns success
PairResponse ==
  /\ \E c \in Coroutines :
       /\ tasks[c].pc = "await"
       /\ \E data \in DataOf(tasks[c].ability) :
            LET r == RespondOk(Store, tasks[c], data, clock) IN
            /\ SetStore(r.st)
            /\ tasks' = [tasks EXCEPT ![c] = r.task]
  /\ clock' = clock + 1
  /\ UNCHANGED <<mcp, ret, nextSid, nUpd, nExec, run>>

\* the call a coroutine awaits returns failure
PairResponseFailed ==
  /\ \E c \in Coroutines :
       /\ tasks[c].pc = "await"
       /\ LET r == RespondFailed(Store, tasks[c], clock) IN
          /\ SetStore(r.st)
          /\ tasks' = [tasks EXCEPT ![c] = r.task]
  /\ clock' = clock + 1
  /\ UNCHANGED <<mcp, ret, nextSid, nUpd, nExec, run>>

NextPair ==
  \/ PairOpen
  \/ PairSeed
  \/ PairExecute
  \/ PairResponse
  \/ PairResponseFailed

SpecPair == InitCommon /\ [][NextPair]_vars
-----------------------------------------------------------------------------
(* Claims about the store *)

\* C1: for every session, the history holds one version more than the number
\* of update_state calls made on it, whatever the update maps held and however
\* log_stage_execution calls were interleaved, and get_current_state is the
\* last element of get_state_history.
C1_HistoryLength ==
  \A sid \in DOMAIN hist :
    /\ Len(get_state_history(Store, sid)) = nUpd[sid] + 1
    /\ get_current_state(Store, sid) = Last(get_state_history(Store, sid))

\* A session updated twice, with a log entry appended in between or after.
C1_Witness ==
  \E sid \in DOMAIN hist :
    /\ nUpd[sid] = 2
    /\ Len(LogOf(Store, Last(hist[sid]))) >= 1

\* C2: a version of the history never changes once appended: no step changes
\* what any version already in the history reads as, its execution_log and
\* errors included.
C2_VersionsImmutable ==
  [][\A sid \in (DOMAIN hist) \cap (DOMAIN hist') :
       \A i \in 1..Len(hist[sid]) :
         i <= Len(hist'[sid]) =>
           View(Store', hist'[sid][i]) = View(Store, hist[sid][i])]_vars

UnknownKeysOf(updates) == SelectSeq(updates, LAMBDA p : p[1] \notin StateKeys)
KnownKeysOf(updates) == {updates[i][1] : i \in 1..Len(updates)} \cap StateKeys

\* C8: an update_state call on an existing session does not raise, leaves in
\* errors of the new version the previous errors followed by one diagnostic
\* for each key of the map that is no state key, and changes no field other
\* than the recognised keys of the map, current_stage and updated_at.
C8_UnknownKeys ==
  [][\A sid \in (DOMAIN hist) \cap (DOMAIN hist') :
       (ret'.op = "update_state" /\ Len(hist'[sid]) = Len(hist[sid]) + 1) =>
         LET old == View(Store, Last(hist[sid]))
             new == View(Store', Last(hist'[sid]))
             unknown == UnknownKeysOf(ret'.updates)
         IN /\ ret'.raised = "None"
            /\ new.errors =
                 old.errors \o [i \in 1..Len(unknown) |->
                                  UnknownKeyNote(unknown[i][1], new.current_stage)]
            /\ \A k \in StateKeys \ (KnownKeysOf(ret'.updates)
                                      \cup {"current_stage", "updated_at", "errors"}) :
                 new[k] = old[k]]_vars

-----------------------------------------------------------------------------
(* Claims about the stage executors *)

StoreNext == [h |-> hist', lg |-> logHeap', er |-> errHeap']

Count(s, x) == Len(SelectSeq(s, LAMBDA y : y = x))

\* C7: whenever execute of a stage 2 to 11 ends with an exception on an
\* existing session, that step appends exactly one entry to the execution
\* log, with status FAILED and the message of the error, appends the error
\* to errors, and the exception that leaves execute is the one first raised.
C7_FailureRecorded ==
  [][(tasks'["a"] # tasks["a"] /\ tasks'["a"].pc = "raised"
        /\ tasks'["a"].sid \in DOMAIN hist) =>
       LET tk == tasks'["a"]
           log == LogOf(Store, get_current_state(Store, tk.sid))
           log_after == LogOf(StoreNext, get_current_state(StoreNext, tk.sid))
           errors == ErrorsOf(Store, get_current_state(Store, tk.sid))
           errors_after == ErrorsOf(StoreNext, get_current_state(StoreNext, tk.sid))
       IN /\ Len(log_after) = Len(log) + 1
          /\ SubSeq(log_after, 1, Len(log)) = log
          /\ Last(log_after).status = "failed"
          /\ Last(log_after).stage_name = tk.stage
          /\ Last(log_after).error_message = Some(Val(tk.cause).msg)
          /\ errors_after = Append(errors, LogNote(tk.stage, Some(Val(tk.cause).msg)))
          /\ tk.error = tk.cause]_vars

\* The best score of a DECIDE execution that has completed: the score the
\* best-solution rule gives for the evaluation stored in solution_scores.
DecidedScore(state) == _find_best_solution(Val(state.solution_scores)).score

OverallScoresOf(solution_scores) ==
  {OverallOr0(solution_scores[i][2]) : i \in 1..Len(solution_scores)}

\* C10: once DECIDE has found the best solution of a non-empty score map:
\* when the evaluation recommends an id of the map, the best solution is
\* that one and the best score its overall_score; otherwise the best
\* solution is a solution of the map whose overall_score is the maximum.
C10_BestSolution ==
  LET tk == tasks["a"] IN
  (tk.stage = "DECIDE" /\ ~IsNone(tk.aux)
     /\ Val(tk.aux).evaluation.solution_scores # << >>) =>
    LET solution_scores == Val(tk.aux).evaluation.solution_scores
        recommended == Val(tk.aux).evaluation.recommended_solution
        best_solution == Val(Val(tk.aux).best_solution)
        best_score == Val(tk.aux).best_score
    IN IF ~IsNone(recommended) /\ HasId(solution_scores, Val(recommended))
       THEN /\ best_solution.solution_id = recommended
            /\ Some(best_score) = ScoresOf(solution_scores, Val(recommended))
       ELSE /\ ~IsNone(best_solution.solution_id)
            /\ HasId(solution_scores, Val(best_solution.solution_id))
            /\ best_score
                 = OverallOr0(ScoresOf(solution_scores, Val(best_solution.solution_id)))
            /\ \A s \in OverallScoresOf(solution_scores) : s <= best_score

-----------------------------------------------------------------------------
(* Claims about the engine *)

\* The latest state of the session of the run.
RunState == get_current_state(Store, Val(run.gstate).session_id)

\* C3: in every state of an engine run whose session exists, the execution
\* log of the latest state has one entry for each stage attempted so far,
\* and when the last stage has returned, the last entry is the entry of
\* the stage current_stage names.
C3_LogCountsAttempts ==
  ~IsNone(run.gstate) =>
    LET log == LogOf(Store, RunState) IN
    /\ Len(log) = run.finished
    /\ (run.status \in {"running", "returned"} /\ ~run.inside /\ log # << >>)
         => Last(log).stage_name = RunState.current_stage

OrderToDecide ==
  <<"INTAKE", "UNDERSTAND", "PREPARE", "ASK", "WAIT", "RETRIEVE", "DECIDE">>
OrderAfterDecide == <<"UPDATE", "CREATE", "DO", "COMPLETE">>

IsPrefix(s, t) == Len(s) <= Len(t) /\ SubSeq(t, 1, Len(s)) = s

\* C4: the stages an engine run has started are, in this order, INTAKE,
\* UNDERSTAND, PREPARE, ASK, WAIT, RETRIEVE, DECIDE and then UPDATE, CREATE,
\* DO, COMPLETE, each once; a stage starts only when all the stages before
\* it have finished; the successor of every node but DECIDE is the same
\* whatever the state holds, and the successor of DECIDE is UPDATE when
\* escalation_decision is false and the end when it is true; a run that
\* returns has ended either after DECIDE with escalation_decision true or
\* after COMPLETE.
C4_StageOrder ==
  /\ IsPrefix(run.visited, OrderToDecide \o OrderAfterDecide)
  /\ run.finished \in {Len(run.visited), Len(run.visited) - 1}
  /\ run.finished = Len(run.visited) - 1 => run.status = "running"
  /\ (run.status = "running" /\ run.finished = Len(run.visited))
       => StageOf[run.node] = (OrderToDecide \o OrderAfterDecide)[run.finished + 1]
  /\ ~IsNone(run.gstate) =>
       /\ \A node \in DOMAIN StageOf \ {"decide"} :
            NextNode(node, run.gstate) = NextNode(node, None)
       /\ NextNode("decide", Some([RunState EXCEPT !.escalation_decision = Some(FALSE)]))
            = "update"
       /\ NextNode("decide", Some([RunState EXCEPT !.escalation_decision = Some(TRUE)]))
            = END
  /\ Len(run.visited) > Len(OrderToDecide)
       => ~Truthy("escalation_decision", RunState.escalation_decision)
  /\ run.status = "returned" =>
       IF Truthy("escalation_decision", RunState.escalation_decision)
       THEN run.visited = OrderToDecide
       ELSE run.visited = OrderToDecide \o OrderAfterDecide

\* A run that has started the seven stages up to DECIDE, in order.
C4_Witness ==
  /\ run.visited = OrderToDecide
  /\ run.node = "decide"

\* C6: once a stage of an engine run has raised, the run has raised with
\* that stage the last one started and has no result envelope, and no later
\* step starts a stage or changes the store.
C6_StopsOnRaise ==
  /\ []((tasks["a"].pc = "raised" \/ ~IsNone(run.error))
          => (run.status = "raised" /\ IsNone(run.result)))
  /\ [](run.status = "raised" =>
          /\ ~IsNone(run.error)
          /\ IsNone(run.result)
          /\ run.finished = Len(run.visited))
  /\ [][(tasks["a"].pc = "raised" \/ run.status = "raised") =>
          /\ UNCHANGED <<hist, logHeap, errHeap>>
          /\ run'.visited = run.visited
          /\ IsNone(run'.result)]_vars

\* A run that DECIDE has ended by raising, its failure being the last entry
\* of the log.
C6_Witness ==
  /\ run.status = "raised"
  /\ tasks["a"].stage = "DECIDE" /\ tasks["a"].pc = "raised"
  /\ Last(run.visited) = "DECIDE"
  /\ Last(LogOf(Store, RunState)).status = "failed"
  /\ Last(LogOf(Store, RunState)).stage_name = "DECIDE"

-----------------------------------------------------------------------------
(* Claims about WAIT, UPDATE and COMPLETE *)

\* The execute call of this step, when the step is one: the coroutine it
\* leaves, and the latest state of its session before the call.
Called == tasks'["a"]
Before == get_current_state(Store, Called.sid)
After == get_current_state(StoreNext, Called.sid)

C12_WaitingMarker ==
  LET tk == tasks["a"]
      s  == get_current_state(Store, tk.sid) IN
  (tk.stage = "WAIT" /\ tk.pc = "done" /\ IsNone(tk.input)
     /\ Last(LogOf(Store, s)).status = "in_progress") =>
    /\ tk.calls = << >>
    /\ IsNone(s.customer_responses)
    /\ is_waiting_for_response(s)

\* The status update_ticket reported, as UPDATE stores it
\* (`update_result.get("new_status", "in_progress")`).
ReportedStatus(state) ==
  LET update_result == Val(state.ticket_updates)
  IN IF IsNone(update_result.new_status) THEN Some("in_progress")
     ELSE update_result.new_status

\* C13: an UPDATE execution that has completed on a session as DECIDE leaves
\* it has invoked close_ticket and set ticket_status to "closed" when the case
\* is not escalated and the selected solution's recorded score is at least 85;
\* otherwise it has not invoked close_ticket and ticket_status is the status
\* update_ticket reported.
C13_ClosesAtScore85 ==
  LET tk == tasks["a"] IN
  (tk.stage = "UPDATE" /\ tk.pc = "done") =>
    LET before == Val(tk.cur)
        state == Val(tk.returned)
        closes == /\ ~Truthy("escalation_decision", before.escalation_decision)
                  /\ ~IsNone(before.selected_solution)
                  /\ Val(before.selected_solution).score >= 85
    IN IF closes
       THEN /\ Count(tk.calls, "close_ticket") = 1
            /\ state.ticket_status = Some("closed")
       ELSE /\ Count(tk.calls, "close_ticket") = 0
            /\ state.ticket_status = ReportedStatus(state)

-----------------------------------------------------------------------------
(* Claims about a rejected intake payload *)

\* The payload of the run fails _validate_payload.
Rejected == ~IsNone(run.payload) /\ _validate_payload(Val(run.payload)) # << >>

\* C14: the INTAKE step of a run whose payload fails validation creates no
\* session: the sessions of the state store are the same after it as before.
C14_NoSessionOnRejection ==
  [][(Rejected /\ run.node = "intake" /\ run'.visited # run.visited) =>
       DOMAIN hist' = DOMAIN hist]_vars

\* C15: once INTAKE has been run on a payload that fails validation, the run
\* has failed with the error of IntakeStage.execute and no later stage was
\* started.
C15_RejectionSurfaces ==
  (Rejected /\ Len(run.visited) >= 1) =>
    /\ run.status = "raised"
    /\ ~IsNone(run.error)
    /\ run.visited = <<"INTAKE">>

-----------------------------------------------------------------------------
(* Claims about the outcome of an engine run *)

\* The status the entry of stage i has in a run without failure.
ExpectedStatus(i, state) ==
  IF i = 5 /\ ~Truthy("clarification_needed", state.clarification_needed)
  THEN "skipped" ELSE "completed"

EscalatedAtDecide == [RunState EXCEPT !.escalation_decision = Some(TRUE)]

-----------------------------------------------------------------------------
(* Claims about the final status *)

FinalStatuses == {"completed_with_errors", "escalated", "resolved", "completed"}

\* C18: the status in the final payload of a COMPLETE execution is one of
\* four values, fixed by the state it was called on: "completed_with_errors"
\* exactly when errors is non-empty; "escalated" exactly when errors is empty
\* and escalation_decision is true; "resolved" exactly when neither holds and
\* ticket_status is "closed"; "completed" exactly when none of the three holds.
C18_FinalStatusPrecedence ==
  [][(nExec' = nExec + 1 /\ Called.stage = "COMPLETE" /\ Called.pc = "done") =>
       LET status == Val(After.final_payload).status
           failed == ErrorsOf(Store, Before) # << >>
           escalated == Before.escalation_decision = Some(TRUE)
           closed == Before.ticket_status = Some("closed")
       IN /\ status \in FinalStatuses
          /\ status = "completed_with_errors" <=> failed
          /\ status = "escalated" <=> (~failed /\ escalated)
          /\ status = "resolved" <=> (~failed /\ ~escalated /\ closed)
          /\ status = "completed" <=> (~failed /\ ~escalated /\ ~closed)]_vars

\* A COMPLETE execution on an escalated session that had an error recorded.
C18_Witness ==
  LET tk == tasks["a"] IN
  /\ tk.stage = "COMPLETE" /\ tk.pc = "done"
  /\ Val(tk.returned).escalation_decision = Some(TRUE)
  /\ Val(Val(tk.returned).final_payload).status = "completed_with_errors"

-----------------------------------------------------------------------------
(* Claims about the state store *)

C20_UnknownSession ==
  [][(/\ ret' # ret
      /\ ret'.op \in {"update_state", "get_current_state", "log_stage_execution"}
      /\ ret'.sid \notin DOMAIN hist) =>
       /\ ret'.raised = "ValueError"
       /\ UNCHANGED <<hist, logHeap, errHeap>>]_vars

\* update_state has failed on a session that was purged, with another
\* session in the store.
C20_Witness ==
  /\ ret.op = "update_state" /\ ret.raised = "ValueError"
  /\ ret.sid \notin DOMAIN hist
  /\ \E n \in 1..(nextSid - 1) : ret.sid = Uuid(n)
  /\ DOMAIN hist # {}

\* C21: a cleanup_session call does not fail; after it the session is unknown
\* to the store (the session check fails, get_state_history is empty); the
\* histories of all other sessions, and every log and errors list, are as
\* before; and when the session was not in the store, because it was purged
\* before or never existed, nothing changes at all.
C21_CleanupLocal ==
  [][(clock' = clock + 1 /\ ret'.op = "cleanup_session") =>
       LET sid == ret'.sid IN
       /\ ret'.raised = "None"
       /\ SessionCheck(StoreNext, sid) = "ValueError"
       /\ get_state_history(StoreNext, sid) = << >>
       /\ DOMAIN hist' = DOMAIN hist \ {sid}
       /\ \A s \in DOMAIN hist' : hist'[s] = hist[s]
       /\ UNCHANGED <<logHeap, errHeap>>
       /\ sid \notin DOMAIN hist => hist' = hist]_vars

\* A session was purged beside a session that has been updated.
C21_Witness ==
  /\ ret.op = "cleanup_session"
  /\ ret.sid \notin DOMAIN hist
  /\ \E n \in 1..(nextSid - 1) : ret.sid = Uuid(n)
  /\ \E s \in DOMAIN hist : Len(hist[s]) >= 2

-----------------------------------------------------------------------------
(* Claims about the capability client *)

InternalProcessing ==
  {"parse_request_text", "normalize_fields", "add_flags_calculations",
   "solution_evaluation", "response_generation"}
ExternalSystems ==
  {"extract_entities", "enrich_records", "clarify_question", "extract_answer",
   "knowledge_base_search", "escalation_decision", "update_ticket",
   "close_ticket", "execute_api_calls", "trigger_notifications"}

\* The ability name of the execute_ability call of this step.
AskedAbility == Val(mcp'.ability_name)

\* C22: an execute_ability call sends a request to a backend exactly when the
\* ability name is one of the fifteen known names, and then one request, to
\* COMMON for the five internal-processing abilities and to ATLAS for the ten
\* external-systems abilities; the call returns a result whose server_type is
\* the backend the request went to, whether the backend answered or failed.
C22_Routing ==
  [][mcp' # mcp =>
       LET known == AskedAbility \in InternalProcessing \cup ExternalSystems
           server_type == IF AskedAbility \in InternalProcessing THEN "COMMON" ELSE "ATLAS"
       IN /\ Cardinality(InternalProcessing \cup ExternalSystems) = 15
          /\ mcp'.requests # mcp.requests <=> known
          /\ known =>
               /\ mcp'.requests = Append(mcp.requests,
                                         [server_type |-> server_type,
                                          ability_name |-> AskedAbility])
               /\ mcp'.raised = "None"
               /\ Val(mcp'.response).server_type = Some(server_type)]_vars

\* A call of an internal-processing ability that follows a call of an
\* external-systems ability.
C22_Witness ==
  /\ Len(mcp.requests) = 2
  /\ mcp.requests[1].server_type = "ATLAS"
  /\ mcp.requests[2] = [server_type |-> "COMMON", ability_name |-> "solution_evaluation"]
  /\ Val(mcp.response).server_type = Some("COMMON")

\* C23: an execute_ability call with a name that is not in the routing table
\* returns, without raising, a result with success false, the error
\* "Unknown ability: <name>" and no server_type, and sends no request.
C23_UnknownAbility ==
  (~IsNone(mcp.ability_name) /\ Val(mcp.ability_name) \notin DOMAIN server_mapping) =>
    /\ mcp.raised = "None"
    /\ ~IsNone(mcp.response)
    /\ Val(mcp.response).success = FALSE
    /\ Val(mcp.response).error = Some(<<"Unknown ability: ", Val(mcp.ability_name)>>)
    /\ IsNone(Val(mcp.response).server_type)

-----------------------------------------------------------------------------
(* Claims about concurrent stage executions *)

\* What a reader sees of a session: its versions with their logs and errors.
SessionView(st, s) == [i \in 1..Len(st.h[s]) |-> View(st, st.h[s][i])]

\* The step is a stretch of a stage execution on session s, or a direct
\* update of s.
StepOn(s) ==
  \/ \E c \in Coroutines : tasks'[c] # tasks[c] /\ tasks'[c].sid = s
  \/ nUpd'[s] # nUpd[s]

\* C24: with two workflow instances on distinct sessions interleaving, no
\* two sessions share an execution_log or an errors list, and a step changes
\* the versions, the log or the errors of a session only when it is a step of
\* an operation on that session: what a session holds is what its own
\* operations made of it.
C24_SessionIsolation ==
  /\ [](\A s1 \in DOMAIN hist, s2 \in DOMAIN hist :
          s1 # s2 =>
            \A i \in 1..Len(hist[s1]), j \in 1..Len(hist[s2]) :
              /\ hist[s1][i].execution_log # hist[s2][j].execution_log
              /\ hist[s1][i].errors # hist[s2][j].errors)
  /\ [][\A s \in DOMAIN hist :
          SessionView(StoreNext, s) # SessionView(Store, s) => StepOn(s)]_vars

\* Two executions on two sessions, the second started and finished while
\* the first awaited a capability; both have written their version.
C24_Witness ==
  /\ tasks["a"].pc = "done" /\ tasks["b"].pc = "done"
  /\ tasks["a"].sid # tasks["b"].sid
  /\ Len(hist[tasks["a"].sid]) >= 2 /\ Len(hist[tasks["b"].sid]) >= 2
  /\ tasks["a"].start < tasks["b"].start
  /\ get_current_state(Store, tasks["b"].sid).updated_at
       < get_current_state(Store, tasks["a"].sid).updated_at

\* The state keys a stage of the pair writes with its update_state call.
WrittenBy(stage) ==
  IF stage = "UNDERSTAND" THEN {"parsed_request", "extracted_entities"}
  ELSE {"customer_responses"}

\* The execution has made its update_state call: it returned the new version.
HasUpdated(tk) == tk.pc = "done" /\ tk.returned # tk.cur

\* C25: with two stage executions interleaving at their awaits, a step in
\* which an execution writes a version is a step of that execution alone; it
\* appends one version, made from the latest version of the session (not
\* from the state the execution read at its start) with only the fields of
\* its stage changed, and appends the log entry of that stage in the same
\* step.  So the history has one version per update_state call, and after an
\* UNDERSTAND and an answered WAIT on one session the latest version has the
\* fields of both.
C25_AtomicUpdateAndLog ==
  /\ [](\A s \in DOMAIN hist :
          Len(hist[s]) = 1 + nUpd[s]
            + Cardinality({c \in Coroutines : tasks[c].sid = s /\ HasUpdated(tasks[c])}))
  /\ [](\A c \in Coroutines, d \in Coroutines :
          (/\ tasks[c].sid = tasks[d].sid
           /\ tasks[c].stage = "UNDERSTAND" /\ HasUpdated(tasks[c])
           /\ tasks[d].stage = "WAIT" /\ HasUpdated(tasks[d])
           /\ ~IsNone(tasks[d].input))
          => LET state == get_current_state(Store, tasks[c].sid)
             IN /\ ~IsNone(state.parsed_request)
                /\ ~IsNone(state.extracted_entities)
                /\ state.customer_responses = Some("data"))
  /\ [][\A c \in Coroutines :
          (tasks'[c] # tasks[c] /\ HasUpdated(tasks'[c])) =>
            LET s == tasks'[c].sid
                old == Last(hist[s])
                new == Last(hist'[s])
            IN /\ \A d \in Coroutines \ {c} : tasks'[d] = tasks[d]
               /\ hist'[s] = Append(hist[s], new)
               /\ new.current_stage = tasks'[c].stage
               /\ \A k \in StateKeys \ (WrittenBy(tasks'[c].stage)
                                         \cup {"current_stage", "updated_at"}) :
                    new[k] = old[k]
               /\ Len(LogOf(StoreNext, new)) = Len(LogOf(Store, old)) + 1
               /\ Last(LogOf(StoreNext, new)).stage_name = tasks'[c].stage]_vars

\* An UNDERSTAND and an answered WAIT on one session, the WAIT started and
\* finished while UNDERSTAND awaited a capability; the version UNDERSTAND
\* wrote last has the answers WAIT stored.
C25_Witness ==
  LET a == tasks["a"]
      b == tasks["b"] IN
  /\ a.sid = b.sid
  /\ a.stage = "UNDERSTAND" /\ HasUpdated(a)
  /\ b.stage = "WAIT" /\ HasUpdated(b) /\ ~IsNone(b.input)
  /\ a.start < b.start
  /\ Val(b.returned).updated_at < Val(a.returned).updated_at
  /\ Val(a.returned).customer_responses = Some("data")

-----------------------------------------------------------------------------
(* Claims about the versions of a session *)

\* C26: in every version of every session, session_id, ticket_id,
\* customer_name, email, query and priority have the values of the first
\* version, whatever update_state calls were made.
C26_IdentityImmutable ==
  \A s \in DOMAIN hist : \A i \in 1..Len(hist[s]) :
    \A k \in IdentityFields \cup InputFields : hist[s][i][k] = hist[s][1][k]

\* The stage that owns each stage-output field.
Owner ==
  [parsed_request |-> "UNDERSTAND", extracted_entities |-> "UNDERSTAND",
   normalized_fields |-> "PREPARE", enriched_records |-> "PREPARE",
   calculated_flags |-> "PREPARE",
   clarification_needed |-> "ASK", questions_asked |-> "ASK",
   customer_responses |-> "WAIT",
   knowledge_base_results |-> "RETRIEVE", retrieved_solutions |-> "RETRIEVE",
   solution_scores |-> "DECIDE", escalation_decision |-> "DECIDE",
   selected_solution |-> "DECIDE", decision_reasoning |-> "DECIDE",
   ticket_updates |-> "UPDATE", ticket_status |-> "UPDATE",
   generated_response |-> "CREATE",
   api_calls_executed |-> "DO", notifications_sent |-> "DO",
   final_payload |-> "COMPLETE"]

\* Between two consecutive versions a stage-output field differs only when
\* the later version was written by the stage that owns the field; versions
\* a caller wrote directly (to set a session up) are left aside.
OwnedChangesOnly ==
  \A s \in DOMAIN hist : \A i \in 2..Len(hist[s]) :
    hist[s][i].current_stage \in ExecutorStages =>
      \A k \in StageFields :
        hist[s][i][k] # hist[s][i - 1][k] => Owner[k] = hist[s][i].current_stage

C28_AppendOnly ==
  [][\A s \in DOMAIN hist \cap DOMAIN hist' :
       LET old == Last(hist[s])
           new == Last(hist'[s])
       IN /\ IsPrefix(LogOf(Store, old), LogOf(StoreNext, new))
          /\ IsPrefix(ErrorsOf(Store, old), ErrorsOf(StoreNext, new))]_vars

\* C29: a log_stage_execution call on a session of the store leaves every
\* history as it was (no new version; current_stage and updated_at of the
\* latest version unchanged), appends the one entry to the execution_log of
\* the latest version, and appends to its errors the one note of the stage
\* name and the error message when the entry has a non-empty error message,
\* and nothing when the message is empty or absent.
C29_LogAppendsInPlace ==
  [][(clock' = clock + 1 /\ ret'.op = "log_stage_execution") =>
       LET state == Last(hist[ret'.sid])
           log == LogOf(StoreNext, state)
           entry == Last(log)
           error_message == entry.error_message
       IN /\ hist' = hist
          /\ Len(log) = Len(LogOf(Store, state)) + 1
          /\ IsPrefix(LogOf(Store, state), log)
          /\ entry \in CallerEntries
          /\ ErrorsOf(StoreNext, state) =
               IF ~IsNone(error_message) /\ Val(error_message) # ""
               THEN Append(ErrorsOf(Store, state), <<entry.stage_name, Val(error_message)>>)
               ELSE ErrorsOf(Store, state)]_vars

\* A session with two versions whose log holds an entry with an error
\* message, one with an empty message and one without, and one error note.
C29_Witness ==
  /\ ret.op = "log_stage_execution"
  /\ ret.sid \in DOMAIN hist
  /\ Len(hist[ret.sid]) = 2
  /\ LET state == Last(hist[ret.sid])
         log == LogOf(Store, state) IN
     /\ Len(log) = 2
     /\ log[1].error_message = Some("boom")
     /\ log[2].error_message = Some("")
     /\ ErrorsOf(Store, state) = << <<"ASK", "boom">> >>

\* The abilities a stage invokes through the capability client, in the order
\* of its execute method.
AbilityOrder ==
  [UNDERSTAND |-> <<"parse_request_text", "extract_entities">>,
   PREPARE |-> <<"normalize_fields", "enrich_records", "add_flags_calculations">>,
   ASK |-> <<"clarify_question">>,
   WAIT |-> <<"extract_answer">>,
   RETRIEVE |-> <<"knowledge_base_search">>,
   DECIDE |-> <<"solution_evaluation", "escalation_decision">>,
   UPDATE |-> <<"update_ticket", "close_ticket">>,
   CREATE |-> <<"response_generation">>,
   DO |-> <<"execute_api_calls", "trigger_notifications">>,
   COMPLETE |-> << >>]

\* The messages of the prerequisite checks of the stages.
PrerequisiteMessages ==
  {"Missing required data from UNDERSTAND stage",
   "Missing required data from previous stages: parsed_request",
   "Missing required data from previous stages: extracted_entities",
   "Missing required data from previous stages: calculated_flags",
   "Missing parsed request data for knowledge base search",
   "No solutions found to evaluate",
   "Missing decision information from DECIDE stage",
   "Missing ticket update information from UPDATE stage",
   "Missing response or solution information from previous stages"}

\* C30: within one stage execution the abilities invoked so far are a
\* prefix of the stage's fixed order (in order, each at most once); when the
\* awaited call returns a failure the execution raises without invoking any
\* further ability; an execution that has raised invokes nothing more (a
\* later execution is another one, with its own start time); and
\* an execution that raised on its prerequisite check has invoked no
\* ability at all.
C30_AbortWithoutRetry ==
  [][/\ \A c \in Coroutines :
          LET tk == tasks'[c] IN
          /\ tk.pc # "idle" =>
               /\ IsPrefix(tk.calls, AbilityOrder[tk.stage])
               /\ \A ability \in DOMAIN server_mapping :
                    Cardinality({i \in DOMAIN tk.calls : tk.calls[i] = ability}) <= 1
          /\ tk.pc = "await" => tk.calls # << >> /\ Last(tk.calls) = tk.ability
          /\ (tk.pc = "raised" /\ Val(tk.cause).msg \in PrerequisiteMessages) =>
               tk.calls = << >>
          /\ (tasks[c].pc = "raised" /\ tk.start = tasks[c].start) => tk = tasks[c]
     /\ StageResponseFailed =>
          /\ tasks'["a"].pc = "raised"
          /\ tasks'["a"].error # None
          /\ tasks'["a"].calls = tasks["a"].calls]_vars

\* The second ability of DO returned a failure: both abilities were invoked
\* once, in order, and the execution raised with that failure.
C30_Witness ==
  /\ tasks["a"].pc = "raised"
  /\ tasks["a"].stage = "DO"
  /\ tasks["a"].calls = <<"execute_api_calls", "trigger_notifications">>
  /\ Val(tasks["a"].cause).msg = FailureMessage("trigger_notifications")

-----------------------------------------------------------------------------
(* Claims about the validation of the intake payload *)

\* The payload has the required field: present, not empty, not blank.
HasField(value, empty, blank) == ~IsNone(value) /\ Val(value) # empty /\ ~blank

\* The acceptance rule: the three required fields are there, the email has
\* an "@", the priority is absent or one of the four, and the query has at
\* most 5000 characters.
MeetsRules(p) ==
  /\ HasField(p.customer_name, "", Val(p.customer_name) \in WhitespaceOnly)
  /\ HasField(p.email, << >>, \A i \in 1..Len(Val(p.email)) : Val(p.email)[i] \in WhitespaceOnly)
  /\ HasField(p.query, "", Val(p.query) \in WhitespaceOnly)
  /\ HasAtSign(Val(p.email))
  /\ IsNone(p.priority) \/ Val(p.priority) \in ValidPriorities
  /\ Len(Val(p.query)) <= 5000

\* The number of rules the payload violates.
ViolatedRules(p) ==
  (IF HasField(p.customer_name, "", Val(p.customer_name) \in WhitespaceOnly) THEN 0 ELSE 1)
  + (IF HasField(p.email, << >>, \A i \in 1..Len(Val(p.email)) : Val(p.email)[i] \in WhitespaceOnly)
     THEN 0 ELSE 1)
  + (IF HasField(p.query, "", Val(p.query) \in WhitespaceOnly) THEN 0 ELSE 1)
  + (IF ~IsNone(p.email) /\ Val(p.email) # << >> /\ ~HasAtSign(Val(p.email)) THEN 1 ELSE 0)
  + (IF IsNone(p.priority) \/ Val(p.priority) \in ValidPriorities THEN 0 ELSE 1)
  + (IF ~IsNone(p.query) /\ Len(Val(p.query)) > 5000 THEN 1 ELSE 0)

\* C31: once INTAKE has run on a payload, the payload was accepted exactly
\* when it meets the acceptance rule; when it was rejected the error noted
\* in the session lists one message for every violated rule; and when it was
\* accepted without a priority the created state has priority "medium".
C31_IntakeValidation ==
  (~IsNone(run.payload) /\ Len(run.visited) >= 1) =>
    LET p == Val(run.payload)
        validation_errors == _validate_payload(p)
        created == hist[Uuid(1)][1]
    IN /\ (validation_errors = << >>) <=> MeetsRules(p)
       /\ Len(validation_errors) = ViolatedRules(p)
       /\ validation_errors # << >> =>
            ErrorsOf(Store, created)
              = << <<"INTAKE", "Payload validation failed: " \o Join(validation_errors)>> >>
       /\ (validation_errors = << >> /\ IsNone(p.priority)) => created.priority = "medium"

-----------------------------------------------------------------------------
(* Claims about DECIDE and PREPARE *)

\* C32: a DECIDE execution on a session whose retrieved_solutions is unset
\* or empty invokes no ability, leaves the history of the session as it was
\* (so solution_scores, escalation_decision, selected_solution and
\* decision_reasoning stay as they were), appends one FAILED log entry with
\* an empty ability list and the error message, appends the error to errors,
\* and raises that error.
C32_DecideWithoutSolutions ==
  [][(nExec' = nExec + 1 /\ Called.stage = "DECIDE"
        /\ ~Truthy("retrieved_solutions", Before.retrieved_solutions)) =>
       LET entry == Last(LogOf(StoreNext, After)) IN
       /\ Called.pc = "raised"
       /\ Called.error = Some(Error("Exception", "No solutions found to evaluate"))
       /\ Called.calls = << >>
       /\ hist' = hist
       /\ LogOf(StoreNext, After) = Append(LogOf(Store, Before), entry)
       /\ entry.stage_name = "DECIDE"
       /\ entry.status = "failed"
       /\ entry.abilities_executed = << >>
       /\ entry.error_message = Some("No solutions found to evaluate")
       /\ ErrorsOf(StoreNext, After)
            = Append(ErrorsOf(Store, Before),
                     <<"DECIDE", "No solutions found to evaluate">>)]_vars

\* DECIDE has raised on a session whose retrieved_solutions is the empty
\* list.
C32_Witness ==
  LET tk == tasks["a"] IN
  /\ tk.stage = "DECIDE" /\ tk.pc = "raised"
  /\ get_current_state(Store, tk.sid).retrieved_solutions = Some(<< >>)
  /\ IsNone(get_current_state(Store, tk.sid).solution_scores)
  /\ Last(LogOf(Store, get_current_state(Store, tk.sid))).status = "failed"

\* C33: in a PREPARE execution on a session with parsed_request and
\* extracted_entities set, a capability call that succeeds is followed by the
\* next ability of normalize_fields, enrich_records, add_flags_calculations
\* or, after the third, by the completion of the stage: the new latest state
\* has normalized_fields, enriched_records and calculated_flags set, errors
\* is as before, and the last log entry is COMPLETED with the three
\* abilities.
C33_PrepareCompletes ==
  [][(tasks["a"].stage = "PREPARE" /\ tasks["a"].pc = "await" /\ StageResponse) =>
       LET abilities == <<"normalize_fields", "enrich_records", "add_flags_calculations">>
           state == get_current_state(Store, Called.sid)
           entry == Last(LogOf(StoreNext, After))
       IN /\ Called.pc \in {"await", "done"}
          /\ IsPrefix(Called.calls, abilities)
          /\ Called.pc = "await" => Len(Called.calls) = Len(tasks["a"].calls) + 1
          /\ Called.pc = "done" =>
               /\ Called.calls = abilities
               /\ Len(hist'[Called.sid]) = Len(hist[Called.sid]) + 1
               /\ ~IsNone(After.normalized_fields)
               /\ ~IsNone(After.enriched_records)
               /\ ~IsNone(After.calculated_flags)
               /\ ErrorsOf(StoreNext, After) = ErrorsOf(Store, state)
               /\ entry.status = "completed"
               /\ entry.abilities_executed = abilities]_vars

-----------------------------------------------------------------------------
(* Claims about the engine's result and its termination *)

C35_RunTerminates ==
  /\ (run.status = "running") ~> (run.status \in {"returned", "raised"})
  /\ [][run.visited' # run.visited =>
          /\ run.visited = SubSeq(run.visited', 1, Len(run.visited))
          /\ Len(run.visited') = Len(run.visited) + 1
          /\ \A i \in 1..Len(run.visited) :
               StageId[run.visited[i]] < StageId[Last(run.visited')]]_vars
  /\ [][(run.status = "running" /\ run.node = "wait" /\ run' # run) =>
          /\ Last(run'.visited) = "WAIT"
          /\ run'.finished = Len(run'.visited)
          /\ ~run'.inside
          /\ run'.node # "wait"]_vars

\* A run that went through the wait node and has ended.
C35_Witness ==
  /\ run.status \in {"returned", "raised"}
  /\ \E i \in 1..Len(run.visited) : run.visited[i] = "WAIT"
  /\ run.finished = Len(run.visited)

-----------------------------------------------------------------------------
(* Claims about what the stages write *)

NotedKey(errors, key) ==
  \E i \in 1..Len(errors) : errors[i] = UnknownKeyNote(key, "DECIDE")

\* C37: when a DECIDE execution has completed, the errors of the latest
\* state hold a note for decision_timestamp and one for decision_confidence,
\* and one for escalation_details when the case is escalated; and when a
\* COMPLETE execution that followed a completed DECIDE has completed, the
\* status of its final payload is "completed_with_errors".
C37_DecideLeavesErrors ==
  LET tk == tasks["a"]
      state == get_current_state(Store, tk.sid)
      errors == ErrorsOf(Store, state)
  IN /\ (tk.stage = "DECIDE" /\ tk.pc = "done") =>
          /\ errors # << >>
          /\ NotedKey(errors, "decision_timestamp")
          /\ NotedKey(errors, "decision_confidence")
          /\ Truthy("escalation_decision", state.escalation_decision)
               <=> NotedKey(errors, "escalation_details")
     /\ (tk.stage = "COMPLETE" /\ tk.pc = "done") =>
          /\ errors # << >>
          /\ Val(state.final_payload).status = "completed_with_errors"

\* COMPLETE has completed after a DECIDE that completed without escalating,
\* on a session whose errors were empty before DECIDE.
C37_Witness ==
  LET tk == tasks["a"]
      state == get_current_state(Store, tk.sid)
  IN /\ tk.stage = "COMPLETE" /\ tk.pc = "done"
     /\ state.escalation_decision = Some(FALSE)
     /\ Val(state.final_payload).status = "completed_with_errors"
     /\ ErrorsOf(Store, state)[1] = UnknownKeyNote("decision_timestamp", "DECIDE")
     /\ \E i \in 1..Len(LogOf(Store, state)) :
          /\ LogOf(Store, state)[i].stage_name = "DECIDE"
          /\ LogOf(Store, state)[i].status = "completed"

\* C38: when a DECIDE execution has completed without escalating, the
\* selected solution's id is a key of the score map of the evaluation, its
\* score is that solution's overall_score, and the score is at least the
\* threshold of 90; and when the score map is empty, or no solution has a
\* positive overall_score and none is recommended, the best score found is 0
\* and a DECIDE that completes has escalated.
C38_SelectedWasScored ==
  LET tk == tasks["a"]
      state == get_current_state(Store, tk.sid)
  IN (tk.stage = "DECIDE" /\ tk.pc = "done") =>
       LET solution_evaluation == Val(tk.aux).evaluation
           solution_scores == solution_evaluation.solution_scores
           selected_solution == state.selected_solution
       IN /\ state.escalation_decision = Some(FALSE) =>
               /\ ~IsNone(selected_solution)
               /\ ~IsNone(Val(selected_solution).solution_id)
               /\ HasId(solution_scores, Val(Val(selected_solution).solution_id))
               /\ ScoresOf(solution_scores, Val(Val(selected_solution).solution_id))
                    = Some(Val(selected_solution).score)
               /\ Val(selected_solution).score >= escalation_threshold
          /\ (\/ solution_scores = << >>
              \/ /\ IsNone(solution_evaluation.recommended_solution)
                 /\ \A i \in 1..Len(solution_scores) :
                      IsNone(solution_scores[i][2]) \/ Val(solution_scores[i][2]) <= 0) =>
               /\ Val(tk.aux).best_score = 0
               /\ state.escalation_decision = Some(TRUE)
               /\ IsNone(state.selected_solution)

\* DECIDE has completed without escalating on an evaluation of two
\* solutions, selecting the recommended one although the other scored higher.
C38_Witness ==
  LET tk == tasks["a"]
      state == get_current_state(Store, tk.sid)
  IN /\ tk.stage = "DECIDE" /\ tk.pc = "done"
     /\ state.escalation_decision = Some(FALSE)
     /\ Val(tk.aux).evaluation.solution_scores
          = << <<"SOL-001", Some(95)>>, <<"SOL-002", Some(90)>> >>
     /\ Val(state.selected_solution).solution_id = Some("SOL-002")
     /\ Val(state.selected_solution).score = 90

\* C39: a step of a stage execution after which the ticket_status of the
\* session is "closed" when it was not before completes an UPDATE execution
\* that invoked close_ticket on a case that was not escalated; and an UPDATE
\* execution that raises, as it does when update_ticket or close_ticket
\* fails, leaves ticket_status and ticket_updates as they were.
C39_ClosedOnlyByCloseTicket ==
  [][(tasks'["a"] # tasks["a"] /\ Called.pc \in {"done", "raised"}) =>
       /\ (After.ticket_status = Some("closed") /\ Before.ticket_status # Some("closed")) =>
            /\ Called.stage = "UPDATE" /\ Called.pc = "done"
            /\ Called.calls = <<"update_ticket", "close_ticket">>
            /\ ~Truthy("escalation_decision", Before.escalation_decision)
       /\ (Called.stage = "UPDATE" /\ Called.pc = "raised") =>
            /\ After.ticket_status = Before.ticket_status
            /\ After.ticket_updates = Before.ticket_updates]_vars


\* The WAIT entries of the session's log, oldest first.
WaitLog(st, sid) ==
  LET log == LogOf(st, get_current_state(st, sid)) IN
  [i \in 1..Cardinality({j \in 1..Len(log) : log[j].stage_name = "WAIT"}) |->
     log[CHOOSE j \in 1..Len(log) :
           /\ log[j].stage_name = "WAIT"
           /\ Cardinality({k \in 1..j : log[k].stage_name = "WAIT"}) = i]]

\* Every WAIT execution so far on the session was a pause, but the last, which
\* was given an answer payload and completed.
PausedThenAnswered(tk) ==
  LET w == WaitLog(Store, tk.sid) IN
  /\ tk.stage = "WAIT" /\ tk.pc = "done" /\ ~IsNone(tk.input)
  /\ w # << >>
  /\ Last(w).status = "completed"
  /\ \A i \in 1..(Len(w) - 1) : w[i].status = "in_progress"

\* C40: WAIT can be paused any number of times. With clarification_needed
\* true, an execution without an answer payload ends at once, invokes no
\* capability, and adds exactly one version to the history and one entry, of
\* status IN_PROGRESS, to the log; an execution with an answer payload calls
\* extract_answer whatever came before and, when the call succeeds, completes
\* with one version more, one COMPLETED entry more and customer_responses set.
\* After n pauses and the first answered execution the log holds n + 1 WAIT
\* entries, and get_stage_output for WAIT returns the earliest of them: the
\* entry of the first pause when n > 0.
C40_WaitPausesAnyNumber ==
  /\ [][(nExec' = nExec + 1 /\ Called.stage = "WAIT"
          /\ Truthy("clarification_needed", Before.clarification_needed)
          /\ IsNone(Called.input)) =>
         /\ Called.pc = "done"
         /\ Called.calls = << >>
         /\ Len(hist'[Called.sid]) = Len(hist[Called.sid]) + 1
         /\ Len(LogOf(StoreNext, After)) = Len(LogOf(Store, Before)) + 1
         /\ IsPrefix(LogOf(Store, Before), LogOf(StoreNext, After))
         /\ Last(LogOf(StoreNext, After)).stage_name = "WAIT"
         /\ Last(LogOf(StoreNext, After)).status = "in_progress"
         /\ Last(LogOf(StoreNext, After)).abilities_executed = << >>
         /\ IsNone(After.customer_responses)]_vars
  /\ [][(nExec' = nExec + 1 /\ Called.stage = "WAIT"
          /\ Truthy("clarification_needed", Before.clarification_needed)
          /\ ~IsNone(Called.input)) =>
         /\ Called.pc = "await"
         /\ Called.ability = "extract_answer"
         /\ hist' = hist
         /\ LogOf(StoreNext, After) = LogOf(Store, Before)]_vars
  /\ [][(tasks["a"].stage = "WAIT" /\ tasks["a"].pc = "await"
          /\ Called.pc = "done") =>
         /\ Len(hist'[Called.sid]) = Len(hist[Called.sid]) + 1
         /\ Len(LogOf(StoreNext, After)) = Len(LogOf(Store, Before)) + 1
         /\ IsPrefix(LogOf(Store, Before), LogOf(StoreNext, After))
         /\ Last(LogOf(StoreNext, After)).stage_name = "WAIT"
         /\ Last(LogOf(StoreNext, After)).status = "completed"
         /\ ~IsNone(After.customer_responses)]_vars
  /\ [](PausedThenAnswered(tasks["a"]) =>
         LET w == WaitLog(Store, tasks["a"].sid) IN
         /\ Len(w) = nExec
         /\ get_stage_output(Store, tasks["a"].sid, "WAIT") = Some(w[1])
         /\ w[1].status = IF nExec = 1 THEN "completed" ELSE "in_progress")

\* Two pauses and then an answered execution that completed: three WAIT
\* entries, and get_stage_output answers with the entry of the first pause.
C40_Witness ==
  /\ PausedThenAnswered(tasks["a"])
  /\ nExec = 3
  /\ Len(WaitLog(Store, tasks["a"].sid)) = 3
  /\ Val(get_stage_output(Store, tasks["a"].sid, "WAIT")).status = "in_progress"
  /\ ~IsNone(get_current_state(Store, tasks["a"].sid).customer_responses)
====
